---- MODULE Spec2Model ----
(***************************************************************************)
(* Model of the wedding planner's ingestion-and-merge pipeline.            *)
(*                                                                         *)
(*  - the reconciliation handlers of the current App component             *)
(*    (handleVenueComplete, handleVendorComplete, handleAddVenue, ...),    *)
(*    src/services/geminiService.ts lines 191-831;                         *)
(*  - the sequential upload handlers of the App component in               *)
(*    src/unnamed/part_000 (handleVenueUpload, handleVendorUpload) driven  *)
(*    by the FileUpload component of src/components/FileUpload.tsx.        *)
(*                                                                         *)
(* JavaScript objects are functions from field names to values; a key that *)
(* is missing (or holds undefined) is a name outside the DOMAIN.           *)
(***************************************************************************)
EXTENDS Integers, Sequences, FiniteSets, TLC

VARIABLES
    state,            \* App: const [state, setState] = useState<AppState>
    localStorage,     \* the 'wedding_planner_data' snapshot
    isCloudConnected, \* App: useState(false)
    syncStatus,       \* App: 'idle' | 'saving' | 'saved' | 'error'
    cloud,            \* the remote document written by saveDataToCloud
    saving,           \* saveDataToCloud promises not yet settled (payloads)
    timers,           \* pending setTimeout(() => setSyncStatus('idle'), 3000)
    uuidSeq,          \* number of crypto.randomUUID() values issued so far
    now,              \* Date.now()
    isLoading,        \* part_000 App: useState(false)
    error,            \* FileUpload: useState<string | null>(null)
    calls,            \* running handleVenueUpload / handleVendorUpload calls
    batch,            \* record of the last upload batch (per-file outcome)
    hist,             \* MergeSpec: the states before each merge;
                      \* UploadSpec: the records extracted so far in the batch
    input,            \* MergeSpec: the kind and the extracted record;
                      \* StartupSpec: the stored item the mount read
    boot              \* App: "stored" before it is mounted, then "mounted",
                      \* or "crashed" when the first render throws

vars == <<state, localStorage, isCloudConnected, syncStatus, cloud, saving,
          timers, uuidSeq, now, isLoading, error, calls, batch, hist, input,
          boot>>

appVars == <<state, localStorage, isCloudConnected, syncStatus, cloud, saving,
             timers, uuidSeq, now>>
uploadVars == <<isLoading, error, calls, batch>>
mergeVars == <<hist, input, boot>>

----------------------------------------------------------------------------
(* Bounds of the model *)

MaxFill == 1       \* entities around the varied entity of a MergeSpec input
MaxFiles == 2      \* files of one upload (FileList length)
MaxRecords == 1    \* records extracted from one file
MaxExtracted == 2  \* records extracted from one file in UploadSpec
MaxEntities == 2   \* entities per collection in Spec
MaxSaving == 2     \* saveDataToCloud calls in flight
MaxUuid == 2       \* identifiers issued in Spec
MaxTimers == 1     \* setTimeout callbacks pending
MaxCalls == 1      \* handleEnrichVenue / handleForceSync calls awaiting
MaxNow == 2        \* last value of the clock at a user action

----------------------------------------------------------------------------
(* JavaScript values *)

Has(r, f) == f \in DOMAIN r

\* { ...a, ...b }
Spread(a, b) ==
    [k \in DOMAIN a \cup DOMAIN b |-> IF k \in DOMAIN b THEN b[k] ELSE a[k]]

Without(r, f) == [k \in DOMAIN r \ {f} |-> r[k]]

\* r.f || 0
NumOr0(r, f) == IF Has(r, f) THEN r[f] ELSE 0

\* a non-empty string / a non-zero number under r.f
TruthyStr(r, f) == Has(r, f) /\ r[f] # ""
TruthyNum(r, f) == Has(r, f) /\ r[f] # 0

\* { ...base, f: a.f || b.f } for string fields; undefined leaves no key
OrStr(base, f, a, b) ==
    IF TruthyStr(a, f) THEN Spread(base, f :> a[f])
    ELSE IF Has(b, f) THEN Spread(base, f :> b[f])
    ELSE Without(base, f)

\* { ...base, f: cond ? v : b.f }
CondOr(base, f, cond, v, b) ==
    IF cond THEN Spread(base, f :> v)
    ELSE IF Has(b, f) THEN Spread(base, f :> b[f])
    ELSE Without(base, f)

\* `${n}` of a number, "undefined" of a missing one
Fmt(r, f) == IF Has(r, f) THEN ToString(r[f]) ELSE "undefined"

UpperCase == "ABCDEFGHIJKLMNOPQRSTUVWXYZ"
LowerCase == "abcdefghijklmnopqrstuvwxyz"

\* the lower-case letter of each upper-case letter
LowerOf ==
    [c \in { SubSeq(UpperCase, i, i) : i \in 1..26 } |->
        LET i == CHOOSE j \in 1..26 : SubSeq(UpperCase, j, j) = c
        IN SubSeq(LowerCase, i, i)]

lowerChar(c) == IF c \in DOMAIN LowerOf THEN LowerOf[c] ELSE c

RECURSIVE toLowerCase(_)
toLowerCase(s) ==
    IF s = "" THEN ""
    ELSE lowerChar(SubSeq(s, 1, 1)) \o toLowerCase(SubSeq(s, 2, Len(s)))

RECURSIVE trimStart(_)
trimStart(s) ==
    IF s # "" /\ SubSeq(s, 1, 1) = " " THEN trimStart(SubSeq(s, 2, Len(s)))
    ELSE s

RECURSIVE trimEnd(_)
trimEnd(s) ==
    IF s # "" /\ SubSeq(s, Len(s), Len(s)) = " "
    THEN trimEnd(SubSeq(s, 1, Len(s) - 1))
    ELSE s

trim(s) == trimEnd(trimStart(s))

\* s.split(','): acc is the segment read so far
RECURSIVE splitFrom(_, _)
splitFrom(s, acc) ==
    IF s = "" THEN <<acc>>
    ELSE IF SubSeq(s, 1, 1) = ","
         THEN <<acc>> \o splitFrom(SubSeq(s, 2, Len(s)), "")
         ELSE splitFrom(SubSeq(s, 2, Len(s)), acc \o SubSeq(s, 1, 1))

split(s) == splitFrom(s, "")

\* changes.join('. ')
RECURSIVE join(_)
join(ss) ==
    IF Len(ss) = 0 THEN ""
    ELSE IF Len(ss) = 1 THEN ss[1]
    ELSE ss[1] \o ". " \o join(Tail(ss))

\* s.includes(sub)
includes(s, sub) ==
    \E i \in 1..(Len(s) - Len(sub) + 1) : SubSeq(s, i, i + Len(sub) - 1) = sub

Map(f(_), seq) == [i \in 1..Len(seq) |-> f(seq[i])]

\* a vibe value is a string, [str |-> s], or an array, [arr |-> tags]
isArray(v) == Has(v, "arr")

\* mutant: a generator that is re-seeded and issues the same value again
randomUUID_reseeded(n) == "uuid-1"

\* crypto.randomUUID(): the n-th identifier issued, never issued before
randomUUID(n) == "uuid-" \o ToString(n)

DefaultStatus == "Haven't looked"

----------------------------------------------------------------------------
(* Merge / reconciliation: handleVenueComplete and handleVendorComplete *)

\* mutant: the names are compared as they are written
venueMatches_caseSensitive(v, extracted) ==
    v.venue_name = extracted.venue_name

\* newVenues.findIndex(v => v.venue_name.toLowerCase() ===
\*                          extracted.venue_name.toLowerCase())
venueMatches(v, extracted) ==
    toLowerCase(v.venue_name) = toLowerCase(extracted.venue_name)

vendorMatches(v, extracted) ==
    /\ toLowerCase(v.vendor_name) = toLowerCase(extracted.vendor_name)
    /\ toLowerCase(v.category) = toLowerCase(extracted.category)

\* mutant: the last index whose element passes the test
findIndex_last(hits) ==
    IF hits = {} THEN 0 ELSE CHOOSE i \in hits : \A j \in hits : i >= j

\* the first index whose element passes the test (hits: the indexes that
\* pass); 0 stands for -1
findIndex(hits) ==
    IF hits = {} THEN 0 ELSE CHOOSE i \in hits : \A j \in hits : i <= j

venueIndex(list, extracted) ==
    findIndex({ i \in 1..Len(list) : venueMatches(list[i], extracted) })

vendorIndex(list, extracted) ==
    findIndex({ i \in 1..Len(list) : vendorMatches(list[i], extracted) })

\* Array.isArray(extracted.vibe) ? extracted.vibe
\*   : typeof extracted.vibe === 'string'
\*       ? extracted.vibe.split(',').map(s => s.trim()) : []
normalizedVibe(extracted) ==
    IF ~Has(extracted, "vibe") THEN [arr |-> <<>>]
    ELSE IF isArray(extracted.vibe) THEN extracted.vibe
    ELSE [arr |-> Map(trim, split(extracted.vibe.str))]

safeExtractedOf(extracted) ==
    Spread(extracted, "vibe" :> normalizedVibe(extracted))

\* mutant: a capacity is a change whenever it is present
venueChanges_anyCapacity(existing, safeExtracted) ==
    IF Has(safeExtracted, "capacity") /\ safeExtracted.capacity > 0
    THEN <<"Capacity changed from "
             \o ToString(NumOr0(existing, "capacity")) \o " to "
             \o ToString(safeExtracted.capacity)>>
    ELSE <<>>

\* the change lines of a venue merge
venueChanges(existing, safeExtracted) ==
    LET existingTotalPP == NumOr0(existing, "total_cost_pp")
        existingCocktail == NumOr0(existing, "cocktail_cost_pp")
        existingSiteFee == NumOr0(existing, "site_fee")
        existingCapacity == NumOr0(existing, "capacity")
        c1 == IF /\ Has(safeExtracted, "total_cost_pp")
                 /\ safeExtracted.total_cost_pp > 0
                 /\ safeExtracted.total_cost_pp # existingTotalPP
              THEN <<"Total PP Cost updated from $"
                       \o ToString(existingTotalPP) \o " to $"
                       \o ToString(safeExtracted.total_cost_pp)>>
              ELSE <<>>
        c2 == IF /\ TruthyNum(safeExtracted, "cocktail_cost_pp")
                 /\ safeExtracted.cocktail_cost_pp # existingCocktail
              THEN <<"Cocktail Cost updated from $"
                       \o ToString(existingCocktail) \o " to $"
                       \o ToString(safeExtracted.cocktail_cost_pp)>>
              ELSE <<>>
        c3 == IF /\ Has(safeExtracted, "site_fee")
                 /\ safeExtracted.site_fee > 0
                 /\ safeExtracted.site_fee # existingSiteFee
              THEN <<"Site Fee updated from $"
                       \o ToString(existingSiteFee) \o " to $"
                       \o ToString(safeExtracted.site_fee)>>
              ELSE <<>>
        c4 == IF /\ Has(safeExtracted, "capacity")
                 /\ safeExtracted.capacity > 0
                 /\ safeExtracted.capacity # existingCapacity
              THEN <<"Capacity changed from "
                       \o ToString(existingCapacity) \o " to "
                       \o ToString(safeExtracted.capacity)>>
              ELSE <<>>
        c5 == IF /\ TruthyStr(safeExtracted, "notes")
                 /\ TruthyStr(existing, "notes")
                 /\ Len(safeExtracted.notes) # Len(existing.notes)
              THEN <<"Rate card notes updated">>
              ELSE <<>>
    IN c1 \o c2 \o c3 \o c4 \o c5

\* mutant: the timestamp is refreshed by every merge
venueUpdated_alwaysStamps(existing, safeExtracted, timestamp) ==
    LET changes == venueChanges(existing, safeExtracted)
        r0 == Spread(existing, safeExtracted)
        r1 == OrStr(r0, "city", safeExtracted, existing)
        r2 == OrStr(r1, "state", safeExtracted, existing)
        r3 == OrStr(r2, "notes", safeExtracted, existing)
        r4 == Spread(r3, "status" :>
                 (IF TruthyStr(existing, "status") THEN existing.status
                  ELSE DefaultStatus))
        r5 == Spread(r4, "lastUpdated" :> timestamp)
    IN CondOr(r5, "updateDescription", Len(changes) > 0, join(changes),
              existing)

\* newVenues[existingIndex] = { ...existing, ...safeExtracted, city: ..., }
venueUpdated(existing, safeExtracted, timestamp) ==
    LET changes == venueChanges(existing, safeExtracted)
        r0 == Spread(existing, safeExtracted)
        r1 == OrStr(r0, "city", safeExtracted, existing)
        r2 == OrStr(r1, "state", safeExtracted, existing)
        r3 == OrStr(r2, "notes", safeExtracted, existing)
        r4 == Spread(r3, "status" :>
                 (IF TruthyStr(existing, "status") THEN existing.status
                  ELSE DefaultStatus))
        r5 == CondOr(r4, "lastUpdated", Len(changes) > 0, timestamp, existing)
    IN CondOr(r5, "updateDescription", Len(changes) > 0, join(changes),
              existing)

\* mutant: the appended venue is given no status
venueAdded_noStatus(safeExtracted, timestamp, uuid) ==
    Spread(safeExtracted,
           [id |-> uuid, lastUpdated |-> timestamp,
            updateDescription |-> "Newly added via upload"])

\* newVenues.push({ ...safeExtracted, id: crypto.randomUUID(), ... })
venueAdded(safeExtracted, timestamp, uuid) ==
    Spread(safeExtracted,
           [id |-> uuid, status |-> DefaultStatus, lastUpdated |-> timestamp,
            updateDescription |-> "Newly added via upload"])

\* mutant: an updated venue is moved to the end of the collection
mergeVenue_movesToEnd(newVenues, extracted, timestamp, uuid) ==
    LET existingIndex == venueIndex(newVenues, extracted)
        safeExtracted == safeExtractedOf(extracted)
    IN IF existingIndex >= 1
       THEN Append(SubSeq(newVenues, 1, existingIndex - 1)
                     \o SubSeq(newVenues, existingIndex + 1, Len(newVenues)),
                   venueUpdated(newVenues[existingIndex], safeExtracted,
                                timestamp))
       ELSE Append(newVenues, venueAdded(safeExtracted, timestamp, uuid))

\* one iteration of `for (const extracted of newVenuesData)`
mergeVenue(newVenues, extracted, timestamp, uuid) ==
    LET existingIndex == venueIndex(newVenues, extracted)
        safeExtracted == safeExtractedOf(extracted)
    IN IF existingIndex >= 1
       THEN [newVenues EXCEPT ![existingIndex] =
                venueUpdated(newVenues[existingIndex], safeExtracted,
                             timestamp)]
       ELSE Append(newVenues, venueAdded(safeExtracted, timestamp, uuid))

\* mutant: a price is a change whenever it is present
vendorChanges_anyPrice(existing, extracted) ==
    IF Has(extracted, "price") /\ extracted.price > 0
    THEN <<"Price updated from $" \o Fmt(existing, "price") \o " to $"
             \o ToString(extracted.price)>>
    ELSE <<>>

vendorChanges(existing, extracted) ==
    IF /\ Has(extracted, "price")
       /\ extracted.price > 0
       /\ (~Has(existing, "price") \/ extracted.price # existing.price)
    THEN <<"Price updated from $" \o Fmt(existing, "price") \o " to $"
             \o ToString(extracted.price)>>
    ELSE <<>>

\* mutant: the status line is left out of the object literal
vendorUpdated_noStatusLine(existing, extracted, timestamp) ==
    LET changes == vendorChanges(existing, extracted)
        r0 == Spread(existing, extracted)
        r2 == CondOr(r0, "lastUpdated", Len(changes) > 0, timestamp, existing)
    IN CondOr(r2, "updateDescription", Len(changes) > 0, join(changes),
              existing)

\* newVendors[existingIndex] = { ...existing, ...extracted, status: ..., }
vendorUpdated(existing, extracted, timestamp) ==
    LET changes == vendorChanges(existing, extracted)
        r0 == Spread(existing, extracted)
        r1 == Spread(r0, "status" :>
                 (IF TruthyStr(existing, "status") THEN existing.status
                  ELSE DefaultStatus))
        r2 == CondOr(r1, "lastUpdated", Len(changes) > 0, timestamp, existing)
    IN CondOr(r2, "updateDescription", Len(changes) > 0, join(changes),
              existing)

vendorAdded(extracted, timestamp, uuid) ==
    Spread(extracted,
           [id |-> uuid, status |-> DefaultStatus, lastUpdated |-> timestamp,
            updateDescription |-> "Newly added via upload"])

mergeVendor(newVendors, extracted, timestamp, uuid) ==
    LET existingIndex == vendorIndex(newVendors, extracted)
    IN IF existingIndex >= 1
       THEN [newVendors EXCEPT ![existingIndex] =
                vendorUpdated(newVendors[existingIndex], extracted, timestamp)]
       ELSE Append(newVendors, vendorAdded(extracted, timestamp, uuid))

\* the for loop over the records of a batch; n counts the UUIDs issued
mergeOne(kind, list, extracted, timestamp, uuid) ==
    IF kind = "venue" THEN mergeVenue(list, extracted, timestamp, uuid)
    ELSE mergeVendor(list, extracted, timestamp, uuid)

\* mutant: every record of the batch is appended
mergeAll_appendsAll(kind, list, data, timestamp, n) ==
    [list |-> list \o
        [i \in 1..Len(data) |->
            IF kind = "venue"
            THEN venueAdded(safeExtractedOf(data[i]), timestamp,
                            randomUUID(n + i))
            ELSE vendorAdded(data[i], timestamp, randomUUID(n + i))],
     n |-> n + Len(data)]

RECURSIVE mergeAll(_, _, _, _, _)
mergeAll(kind, list, data, timestamp, n) ==
    IF Len(data) = 0 THEN [list |-> list, n |-> n]
    ELSE LET next == mergeOne(kind, list, Head(data), timestamp,
                              randomUUID(n + 1))
         IN mergeAll(kind, next, Tail(data), timestamp,
                     IF Len(next) > Len(list) THEN n + 1 ELSE n)

----------------------------------------------------------------------------
(* The city/state backfill effect, useEffect(..., [state.venues]) *)

Digits == "0123456789"

DigitChars == { SubSeq(Digits, i, i) : i \in 1..10 }

isDigit(c) == c \in DigitChars

\* \w of a regular expression
WordChars ==
    DigitChars \cup {"_"} \cup DOMAIN LowerOf
    \cup { SubSeq(LowerCase, i, i) : i \in 1..26 }

isWordChar(c) == c \in WordChars

\* a match of /\b\d{5}\b/ starts at position i of s
zipAt(s, i) ==
    /\ i + 4 <= Len(s)
    /\ \A k \in i..(i + 4) : isDigit(SubSeq(s, k, k))
    /\ i > 1 => ~isWordChar(SubSeq(s, i - 1, i - 1))
    /\ i + 5 <= Len(s) => ~isWordChar(SubSeq(s, i + 5, i + 5))

\* s.replace(/\b\d{5}\b/g, ''), scanning from position i
RECURSIVE removeZipsFrom(_, _)
removeZipsFrom(s, i) ==
    IF i > Len(s) THEN ""
    ELSE IF zipAt(s, i) THEN removeZipsFrom(s, i + 5)
    ELSE SubSeq(s, i, i) \o removeZipsFrom(s, i + 1)

removeZips(s) == removeZipsFrom(s, 1)

\* s.replace(/\(.*\)/g, ''): greedy, from the first '(' to the last ')'
removeParens(s) ==
    IF \E i, j \in 1..Len(s) :
          i < j /\ SubSeq(s, i, i) = "(" /\ SubSeq(s, j, j) = ")"
    THEN LET i == CHOOSE a \in 1..Len(s) :
                     /\ SubSeq(s, a, a) = "("
                     /\ \E b \in (a + 1)..Len(s) : SubSeq(s, b, b) = ")"
                     /\ \A a2 \in 1..(a - 1) :
                           ~(/\ SubSeq(s, a2, a2) = "("
                             /\ \E b \in (a2 + 1)..Len(s) :
                                   SubSeq(s, b, b) = ")")
             j == CHOOSE b \in 1..Len(s) :
                     /\ SubSeq(s, b, b) = ")"
                     /\ \A b2 \in (b + 1)..Len(s) : SubSeq(s, b2, b2) # ")"
         IN SubSeq(s, 1, i - 1) \o SubSeq(s, j + 1, Len(s))
    ELSE s

\* the body of venues.map(venue => ...) of the effect
\* mutant: the parsed strings are saved even when they are empty
migrateVenue_keepsEmpty(venue) ==
    IF (~TruthyStr(venue, "city") \/ ~TruthyStr(venue, "state"))
       /\ TruthyStr(venue, "location")
    THEN LET parts == split(venue.location)
             newCity == IF Len(parts) >= 2 THEN trim(parts[Len(parts) - 1])
                        ELSE trim(parts[1])
             newState == IF Len(parts) >= 2
                         THEN trim(removeParens(removeZips(parts[Len(parts)])))
                         ELSE "Unknown"
         IN IF \/ ~Has(venue, "city") \/ newCity # venue.city
               \/ ~Has(venue, "state") \/ newState # venue.state
            THEN Spread(venue, [city |-> newCity, state |-> newState])
            ELSE venue
    ELSE venue

migrateVenue(venue) ==
    IF (~TruthyStr(venue, "city") \/ ~TruthyStr(venue, "state"))
       /\ TruthyStr(venue, "location")
    THEN LET parts == split(venue.location)
             city0 == IF Len(parts) >= 2 THEN trim(parts[Len(parts) - 1])
                      ELSE trim(parts[1])
             state0 == IF Len(parts) >= 2
                       THEN trim(removeParens(removeZips(parts[Len(parts)])))
                       ELSE "Unknown"
             newCity == IF city0 = "" THEN "Unknown" ELSE city0
             newState == IF state0 = "" THEN "Unknown" ELSE state0
         IN IF \/ ~Has(venue, "city") \/ newCity # venue.city
               \/ ~Has(venue, "state") \/ newState # venue.state
            THEN Spread(venue, [city |-> newCity, state |-> newState])
            ELSE venue
    ELSE venue

migratedVenues(venues) == Map(migrateVenue, venues)

hasUpdates(venues) == migratedVenues(venues) # venues

----------------------------------------------------------------------------
(* updateData and the handlers of App *)

INITIAL_STATE == [venues |-> <<>>, vendors |-> <<>>]

\* saveDataToCloud(newData) is started for each element of datas
pushAll(datas) ==
    IF isCloudConnected
    THEN /\ syncStatus' = "saving"
         /\ saving' = saving \o datas
    ELSE UNCHANGED <<syncStatus, saving>>

\* updateData(newData) called by a handler created in a render where
\* isCloudConnected had the value connected (an async handler keeps the
\* updateData of its own render); the backfill effect that follows runs in
\* the current render
updateDataFrom(connected, newData) ==
    LET migrated == Spread(newData,
                           [venues |-> migratedVenues(newData.venues)])
        first == IF connected THEN <<newData>> ELSE <<>>
        second == IF hasUpdates(newData.venues) /\ isCloudConnected
                  THEN <<migrated>> ELSE <<>>
    IN /\ state' = migrated
       /\ localStorage' = migrated
       /\ saving' = saving \o first \o second
       /\ syncStatus' = IF first \o second # <<>> THEN "saving"
                        ELSE syncStatus

\* mutant: the snapshot is not written
updateData_noPersist(newData) ==
    /\ state' = Spread(newData, [venues |-> migratedVenues(newData.venues)])
    /\ UNCHANGED localStorage
    /\ pushAll(<<newData>>)

\* updateData(newData), followed by the backfill effect that the change of
\* state.venues triggers (a second updateData when a venue is backfilled)
updateData(newData) ==
    LET migrated == Spread(newData,
                           [venues |-> migratedVenues(newData.venues)])
    IN IF hasUpdates(newData.venues)
       THEN /\ state' = migrated
            /\ localStorage' = migrated
            /\ pushAll(<<newData, migrated>>)
       ELSE /\ state' = newData
            /\ localStorage' = newData
            /\ pushAll(<<newData>>)

handleVenueComplete(newVenuesData) ==
    LET timestamp == now
        r == mergeAll("venue", state.venues, newVenuesData, timestamp, uuidSeq)
    IN /\ updateData(Spread(state, [venues |-> r.list]))
       /\ uuidSeq' = r.n

handleVendorComplete(newVendorsData) ==
    LET timestamp == now
        r == mergeAll("vendor", state.vendors, newVendorsData, timestamp,
                      uuidSeq)
    IN /\ updateData(Spread(state, [vendors |-> r.list]))
       /\ uuidSeq' = r.n

----------------------------------------------------------------------------
(* MergeSpec: one extracted record merged, twice in succession, into each  *)
(* collection of a bounded family                                          *)

\* the key f with value v, or no key at all
Frag(f, present, v) == [k \in (IF present THEN {f} ELSE {}) |-> v]

\* a stored venue; its id was issued by an earlier upload
BaseVenue ==
    [id |-> "uuid-1", venue_name |-> "Oak Barn",
     location |-> "Austin, TX 78701", city |-> "Austin", state |-> "TX",
     vibe |-> [arr |-> <<"Rustic">>], capacity |-> 100,
     booking_cost |-> 5000, admin_fees |-> "20%", notes |-> "abc",
     site_fee |-> 500, site_fee_notes |-> "tent", total_cost_pp |-> 1000]

\* status and audit fields of a stored entity: none (data of an older
\* version), a status only, or a status and an audit trail
Tracking(description) ==
    { Frag("status", FALSE, ""),
      [status |-> "Maybe"],
      [status |-> "Maybe", lastUpdated |-> 0,
       updateDescription |-> description] }

ExistingVenues ==
    { Spread(Spread(Spread(BaseVenue,
          [total_cost_pp |-> t, notes |-> nt]),
          Frag("cocktail_cost_pp", ck > 0, ck)),
          tr) :
        t \in {0, 1000}, nt \in {"", "abc"}, ck \in {0, 50},
        tr \in Tracking("Manually added") }

\* stored venues around the varied one: another key, and the same key
FillerVenues ==
    { Spread(BaseVenue, [id |-> "uuid-2", venue_name |-> "Elm Hall",
                         status |-> "Priority"]),
      Spread(BaseVenue, [id |-> "uuid-3", venue_name |-> "oak barn",
                         status |-> "No", total_cost_pp |-> 900]) }

\* the sequences without repetition of at most n elements of S
RECURSIVE SeqsUpTo(_, _)
SeqsUpTo(S, n) ==
    IF n = 0 THEN {<<>>}
    ELSE LET shorter == SeqsUpTo(S, n - 1)
         IN shorter \cup
            { Append(q, x) : q \in shorter,
                             x \in S }

NoRepeat(q) == \A i, j \in 1..Len(q) : i # j => q[i] # q[j]

\* pre \o <<e>> \o post, and the collections without e
Splits(F) ==
    LET fills == { q \in SeqsUpTo(F, MaxFill) : NoRepeat(q) }
    IN { pp \in fills \X fills :
            /\ Len(pp[1]) + Len(pp[2]) <= MaxFill
            /\ NoRepeat(pp[1] \o pp[2]) }

Around(E, F) ==
    { pp[1] \o <<e>> \o pp[2] : e \in E, pp \in Splits(F) }
    \cup { pp[1] : pp \in Splits(F) }

\* what extractVenueData returns for one venue (venueSchema)
VenueRecords ==
    { Spread([venue_name |-> n, location |-> "Austin, TX 78701",
              vibe |-> [str |-> "Rustic, Barn"], capacity |-> c,
              booking_cost |-> 0, admin_fees |-> tx[2], notes |-> tx[1],
              site_fee |-> 500, site_fee_notes |-> "tent",
              total_cost_pp |-> t],
             Frag("cocktail_cost_pp", ck >= 0, ck)) :
        n \in {"OAK BARN", "Pine Lodge"}, t \in {0, 1000, 1500},
        c \in {100, 150}, ck \in {-1, 0, 50},
        tx \in {<<"", "">>, <<"abc", "20%">>, <<"wxyz", "20%">>} }

BaseVendor ==
    [id |-> "uuid-1", vendor_name |-> "Lens Co", category |-> "Photographer",
     price |-> 1000, notes |-> "abc"]

ExistingVendors ==
    { Spread(Spread(BaseVendor, [price |-> p, notes |-> nt]), tr) :
        p \in {0, 1000}, nt \in {"", "abc"},
        tr \in Tracking("Manually updated") }

FillerVendors ==
    { Spread(BaseVendor, [id |-> "uuid-2", category |-> "Florist",
                          status |-> "Priority"]),
      Spread(BaseVendor, [id |-> "uuid-3", vendor_name |-> "lens co",
                          status |-> "No", price |-> 900]) }

\* what extractVendorData returns for one vendor (vendorSchema)
VendorRecords ==
    { [vendor_name |-> n, category |-> cat, price |-> p, notes |-> nt] :
        n \in {"LENS CO", "Bloom"}, cat \in {"photographer", "Florist"},
        p \in {0, 1000, 1500}, nt \in {"", "wxyz"} }

TheVendor == Spread(BaseVendor, [id |-> "uuid-4", status |-> "Maybe"])
TheVenue == Spread(BaseVenue, [id |-> "uuid-4", status |-> "Maybe"])

IdleInit ==
    /\ isCloudConnected = FALSE
    /\ syncStatus = "idle"
    /\ cloud = INITIAL_STATE
    /\ saving = <<>>
    /\ timers = 0
    /\ isLoading = FALSE
    /\ error = ""
    /\ calls = <<>>
    /\ batch = [jobs |-> <<>>, completions |-> 0]

MergeInit ==
    /\ IdleInit
    /\ boot = "mounted"
    /\ \/ /\ input \in [kind : {"venue"}, rec : VenueRecords]
          /\ state \in [venues : Around(ExistingVenues, FillerVenues),
                        vendors : {<<TheVendor>>}]
       \/ /\ input \in [kind : {"vendor"}, rec : VendorRecords]
          /\ state \in [venues : {<<TheVenue>>},
                        vendors : Around(ExistingVendors, FillerVendors)]
    /\ localStorage = state
    /\ uuidSeq = 4
    /\ now = 1
    /\ hist = <<>>

\* onComplete={handleVenueComplete} called with the one record
MergeVenues ==
    /\ input.kind = "venue"
    /\ Len(hist) < 2
    /\ handleVenueComplete(<<input.rec>>)
    /\ hist' = Append(hist, state)
    /\ now' = now + 1
    /\ UNCHANGED <<isCloudConnected, cloud, timers, uploadVars, input, boot>>

\* onComplete={handleVendorComplete} called with the one record
MergeVendors ==
    /\ input.kind = "vendor"
    /\ Len(hist) < 2
    /\ handleVendorComplete(<<input.rec>>)
    /\ hist' = Append(hist, state)
    /\ now' = now + 1
    /\ UNCHANGED <<isCloudConnected, cloud, timers, uploadVars, input, boot>>

MergeNext == MergeVenues \/ MergeVendors

MergeSpec == MergeInit /\ [][MergeNext]_vars

----------------------------------------------------------------------------
(* UploadSpec: the sequential upload of the App of src/unnamed/part_000,   *)
(* started by the FileUpload component (onUpload, isLoading)               *)

\* one iteration of `for (const extracted of extractedList)`, venues
uploadMergeVenue(newVenues, extracted, uuid) ==
    LET existingIndex == venueIndex(newVenues, extracted)
    IN IF existingIndex >= 1
       THEN LET existing == newVenues[existingIndex]
                r0 == Spread(existing, extracted)
                r1 == OrStr(r0, "notes", extracted, existing)
                r2 == IF TruthyNum(extracted, "booking_price")
                      THEN Spread(r1, "booking_price" :> extracted.booking_price)
                      ELSE IF Has(existing, "booking_price")
                      THEN Spread(r1, "booking_price" :> existing.booking_price)
                      ELSE Without(r1, "booking_price")
            IN [newVenues EXCEPT ![existingIndex] = r2]
       ELSE Append(newVenues, Spread(extracted, "id" :> uuid))

\* one iteration of `for (const extracted of extractedList)`, vendors
uploadMergeVendor(newVendors, extracted, uuid) ==
    LET existingIndex == vendorIndex(newVendors, extracted)
    IN IF existingIndex >= 1
       THEN [newVendors EXCEPT ![existingIndex] =
                Spread(newVendors[existingIndex], extracted)]
       ELSE Append(newVendors, Spread(extracted, "id" :> uuid))

\* mutant: the records of a file are merged last to first
RECURSIVE uploadMergeList_lastFirst(_, _, _, _)
uploadMergeList_lastFirst(kind, list, extractedList, n) ==
    IF Len(extractedList) = 0 THEN [list |-> list, n |-> n]
    ELSE LET last == extractedList[Len(extractedList)]
             next == IF kind = "venue"
                     THEN uploadMergeVenue(list, last, randomUUID(n + 1))
                     ELSE uploadMergeVendor(list, last, randomUUID(n + 1))
         IN uploadMergeList_lastFirst(kind, next,
                SubSeq(extractedList, 1, Len(extractedList) - 1),
                IF Len(next) > Len(list) THEN n + 1 ELSE n)

RECURSIVE uploadMergeList(_, _, _, _)
uploadMergeList(kind, list, extractedList, n) ==
    IF Len(extractedList) = 0 THEN [list |-> list, n |-> n]
    ELSE LET next == IF kind = "venue"
                     THEN uploadMergeVenue(list, Head(extractedList),
                                           randomUUID(n + 1))
                     ELSE uploadMergeVendor(list, Head(extractedList),
                                            randomUUID(n + 1))
         IN uploadMergeList(kind, next, Tail(extractedList),
                            IF Len(next) > Len(list) THEN n + 1 ELSE n)

\* updateData(newData) of this version of App: no backfill effect follows
uploadUpdateData(newData) ==
    /\ state' = newData
    /\ localStorage' = newData
    /\ pushAll(<<newData>>)

\* mutant: the drop zone stays enabled while a batch runs
canUpload_always == TRUE

\* FileUpload: onClick={isLoading ? undefined : handleClick} and
\* <input disabled={isLoading}>
canUpload == ~isLoading

\* what extractVenueData / extractVendorData of part_000's version return
UploadVenueRecords ==
    { [venue_name |-> n, location |-> "Austin, TX", booking_price |-> pn[1],
       notes |-> pn[2]] :
        n \in {"Oak Barn", "OAK BARN"},
        pn \in {<<0, "">>, <<1000, "abc">>} }
    \cup { [venue_name |-> "Elm Hall", location |-> "Austin, TX",
            booking_price |-> 1000, notes |-> "abc"] }

UploadVendorRecords ==
    { [vendor_name |-> "Lens Co", category |-> "Photographer", price |-> p,
       notes |-> ""] : p \in {0, 1000} }

UploadRecords(kind) ==
    IF kind = "venue" THEN UploadVenueRecords ELSE UploadVendorRecords

RECURSIVE ListsUpTo(_, _)
ListsUpTo(S, n) ==
    IF n = 0 THEN {<<>>}
    ELSE LET shorter == ListsUpTo(S, n - 1)
         IN shorter \cup { Append(q, x) : q \in shorter, x \in S }

\* a rejection of the extraction promise: an Error with its message, or
\* another value (the ProgressEvent of FileReader.onerror)
Rejections ==
    { [isError |-> TRUE,
       message |-> "No data extracted from the Gemini API."],
      [isError |-> FALSE, message |-> ""] }

\* handleChange: err instanceof Error ? err.message : "Failed to ..."
errorMessage(err) ==
    IF err.isError THEN err.message
    ELSE "Failed to process file. Please try again."

Job(status) == [status |-> status, errorMessage |-> "", resultCount |-> 0]

\* handleChange -> onUpload(files): the handler runs up to its first await
StartUpload(kind, n) ==
    /\ canUpload
    /\ n >= 1
    /\ now <= MaxNow
    /\ now' = now + 1
    /\ error' = ""
    /\ isLoading' = TRUE
    /\ calls' = Append(calls,
            [kind |-> kind, length |-> n, i |-> 1, state |-> state,
             list |-> IF kind = "venue" THEN state.venues ELSE state.vendors])
    /\ batch' = [jobs |-> [j \in 1..n |->
                             Job(IF j = 1 THEN "Processing" ELSE "Queued")],
                 completions |-> 0]
    /\ hist' = <<>>
    /\ UNCHANGED <<state, localStorage, isCloudConnected, syncStatus, cloud,
                   saving, timers, uuidSeq, input, boot>>

\* await extractVenueData(files[i]) resolves: the records are merged and
\* the loop goes on to the next file, or the handler commits and returns
ExtractResolved(c, extractedList) ==
    LET call == calls[c]
        r == uploadMergeList(call.kind, call.list, extractedList, uuidSeq)
        jobs1 == [batch.jobs EXCEPT
                    ![call.i] = [status |-> "Succeeded", errorMessage |-> "",
                                 resultCount |-> Len(extractedList)]]
    IN /\ uuidSeq' = r.n
       /\ IF call.i < call.length
          THEN /\ calls' = [calls EXCEPT ![c] =
                              [call EXCEPT !.i = call.i + 1, !.list = r.list]]
               /\ batch' = [batch EXCEPT !.jobs =
                              [jobs1 EXCEPT ![call.i + 1].status = "Processing"]]
               /\ UNCHANGED <<state, localStorage, syncStatus, saving,
                              isLoading>>
          ELSE /\ uploadUpdateData(Spread(call.state,
                      IF call.kind = "venue" THEN [venues |-> r.list]
                      ELSE [vendors |-> r.list]))
               /\ isLoading' = FALSE
               /\ calls' = SubSeq(calls, 1, c - 1)
                             \o SubSeq(calls, c + 1, Len(calls))
               /\ batch' = [jobs |-> jobs1,
                            completions |-> batch.completions + 1]
       /\ hist' = hist \o extractedList
       /\ UNCHANGED <<isCloudConnected, cloud, timers, now, error, input, boot>>

\* mutant: a rejected job is put back into the queue
ExtractRejected_requeues(c, err) ==
    LET call == calls[c]
    IN /\ isLoading' = FALSE
       /\ error' = errorMessage(err)
       /\ calls' = SubSeq(calls, 1, c - 1) \o SubSeq(calls, c + 1, Len(calls))
       /\ batch' = [batch EXCEPT !.jobs[call.i] = Job("Queued")]
       /\ UNCHANGED <<appVars, mergeVars>>

\* await extractVenueData(files[i]) rejects: finally { setIsLoading(false) },
\* then the catch of handleChange
ExtractRejected(c, err) ==
    LET call == calls[c]
    IN /\ isLoading' = FALSE
       /\ error' = errorMessage(err)
       /\ calls' = SubSeq(calls, 1, c - 1) \o SubSeq(calls, c + 1, Len(calls))
       /\ batch' = [batch EXCEPT !.jobs[call.i] =
                       [status |-> "Failed", errorMessage |-> errorMessage(err),
                        resultCount |-> 0]]
       /\ UNCHANGED <<appVars, mergeVars>>

\* clearDatabase of this version of App, also while an upload is awaited
uploadClearDatabase ==
    /\ uploadUpdateData(INITIAL_STATE)
    /\ UNCHANGED <<isCloudConnected, cloud, timers, uuidSeq, now, uploadVars,
                   mergeVars>>

UploadInit ==
    /\ IdleInit
    /\ boot = "mounted"
    /\ state = INITIAL_STATE
    /\ localStorage = state
    /\ uuidSeq = 0
    /\ now = 1
    /\ hist = <<>>
    /\ input = <<>>

UploadNext ==
    \/ \E kind \in {"venue", "vendor"}, n \in 1..MaxFiles : StartUpload(kind, n)
    \/ \E c \in 1..Len(calls) :
          \E extractedList \in ListsUpTo(UploadRecords(calls[c].kind),
                                         MaxExtracted) :
             ExtractResolved(c, extractedList)
    \/ \E c \in 1..Len(calls), err \in Rejections : ExtractRejected(c, err)
    \/ uploadClearDatabase

UploadSpec == UploadInit /\ [][UploadNext]_vars

----------------------------------------------------------------------------
(* Spec: the App of src/services/geminiService.ts: uploads, manual adds,   *)
(* edits and deletes, the cloud connection, saves and remote changes       *)

\* rest.vibe.join(', ')
RECURSIVE joinComma(_)
joinComma(ss) ==
    IF Len(ss) = 0 THEN ""
    ELSE IF Len(ss) = 1 THEN ss[1]
    ELSE ss[1] \o ", " \o joinComma(Tail(ss))

UpperOf ==
    [c \in { SubSeq(LowerCase, i, i) : i \in 1..26 } |->
        LET i == CHOOSE j \in 1..26 : SubSeq(LowerCase, j, j) = c
        IN SubSeq(UpperCase, i, i)]

\* s.charAt(0).toUpperCase() + s.slice(1)
capitalize(s) ==
    IF s = "" THEN ""
    ELSE (IF SubSeq(s, 1, 1) \in DOMAIN UpperOf THEN UpperOf[SubSeq(s, 1, 1)]
          ELSE SubSeq(s, 1, 1)) \o SubSeq(s, 2, Len(s))

nonEmpty(s) == s # ""

\* VenueModal.handleSubmit: the tags typed into the vibe input
vibeArray(vibeInput) ==
    [arr |-> Map(capitalize, SelectSeq(Map(trim, split(vibeInput)), nonEmpty))]

\* mutant: a vibe that is a string is left as it is
migrateVibe_arraysOnly(v) ==
    Spread(v, "vibe" :> IF Has(v, "vibe") THEN v.vibe ELSE [arr |-> <<>>])

\* the vibe migration applied to stored and remote venues
migrateVibe(v) ==
    Spread(v, "vibe" :>
        IF Has(v, "vibe") /\ isArray(v.vibe) THEN v.vibe
        ELSE IF Has(v, "vibe") /\ v.vibe.str # ""
        THEN [arr |-> SelectSeq(Map(trim, split(v.vibe.str)), nonEmpty)]
        ELSE [arr |-> <<>>])

DEFAULT_VENUE ==
    [venue_name |-> "", location |-> "", city |-> "", state |-> "",
     vibe |-> [arr |-> <<>>], capacity |-> 0, status |-> DefaultStatus,
     booking_cost |-> 0, admin_fees |-> "", notes |-> "", site_fee |-> 0,
     site_fee_notes |-> "", food_bev_minimum |-> 0, welcome_cost_pp |-> 0,
     brunch_cost_pp |-> 0, reception_cost_pp |-> 0, cocktail_cost_pp |-> 0,
     total_cost_pp |-> 0, website_url |-> ""]

\* VenueModal: the form opened on a venue (or empty), with the name and the
\* tags the user typed, submitted
formData(venue, name, vibeInput) ==
    LET rest == Without(venue, "id")
        f0 == Spread(DEFAULT_VENUE, rest)
        f1 == Spread(f0, [cocktail_cost_pp |-> NumOr0(rest, "cocktail_cost_pp"),
                          website_url |-> IF TruthyStr(rest, "website_url")
                                          THEN rest.website_url ELSE "",
                          city |-> IF TruthyStr(rest, "city")
                                   THEN rest.city ELSE "",
                          state |-> IF TruthyStr(rest, "state")
                                    THEN rest.state ELSE ""])
    IN Spread(f1, [venue_name |-> name, vibe |-> vibeArray(vibeInput)])

\* Date.now() has grown when the next user action runs
timePasses ==
    /\ now <= MaxNow
    /\ now' = now + 1

\* the bounded model: collections, identifiers and saves in flight
withinBounds ==
    /\ Len(state'.venues) <= MaxEntities
    /\ Len(state'.vendors) <= MaxEntities
    /\ uuidSeq' <= MaxUuid
    /\ Len(saving') <= MaxSaving

\* FileUpload's onComplete={handleVenueComplete}
UploadVenuesComplete(newVenuesData) ==
    /\ handleVenueComplete(newVenuesData)
    /\ UNCHANGED <<isCloudConnected, cloud, timers, uploadVars, mergeVars>>
    /\ withinBounds
    /\ timePasses

\* FileUpload's onComplete={handleVendorComplete}
UploadVendorsComplete(newVendorsData) ==
    /\ handleVendorComplete(newVendorsData)
    /\ UNCHANGED <<isCloudConnected, cloud, timers, uploadVars, mergeVars>>
    /\ withinBounds
    /\ timePasses

handleAddVenue(newVenueData) ==
    LET newVenue == Spread(newVenueData,
                        [id |-> randomUUID(uuidSeq + 1), lastUpdated |-> now,
                         updateDescription |-> "Manually added"])
    IN /\ updateData(Spread(state,
                            [venues |-> Append(state.venues, newVenue)]))
       /\ uuidSeq' = uuidSeq + 1
       /\ UNCHANGED <<isCloudConnected, cloud, timers, uploadVars, mergeVars>>
       /\ withinBounds
       /\ timePasses

\* mutant: the audit fields are written only when the edit changed a field
handleVenueUpdate_onlyIfChanged(updatedVenue) ==
    LET stamp(v) == IF v.id = updatedVenue.id /\ v # updatedVenue
                    THEN Spread(updatedVenue,
                             [lastUpdated |-> now,
                              updateDescription |-> "Manually updated"])
                    ELSE v
    IN /\ updateData(Spread(state, [venues |-> Map(stamp, state.venues)]))
       /\ UNCHANGED <<isCloudConnected, cloud, timers, uuidSeq, uploadVars,
                      mergeVars>>
       /\ withinBounds
       /\ timePasses

handleVenueUpdate(updatedVenue) ==
    LET stamp(v) == IF v.id = updatedVenue.id
                    THEN Spread(updatedVenue,
                             [lastUpdated |-> now,
                              updateDescription |-> "Manually updated"])
                    ELSE v
    IN /\ updateData(Spread(state, [venues |-> Map(stamp, state.venues)]))
       /\ UNCHANGED <<isCloudConnected, cloud, timers, uuidSeq, uploadVars, mergeVars>>
       /\ withinBounds
       /\ timePasses

handleDeleteVenue(venueId) ==
    LET keep(v) == v.id # venueId
    IN /\ updateData(Spread(state, [venues |-> SelectSeq(state.venues, keep)]))
       /\ UNCHANGED <<isCloudConnected, cloud, timers, uuidSeq, uploadVars, mergeVars>>
       /\ withinBounds
       /\ timePasses

handleVendorUpdate(updatedVendor) ==
    LET stamp(v) == IF v.id = updatedVendor.id
                    THEN Spread(updatedVendor,
                             [lastUpdated |-> now,
                              updateDescription |-> "Manually updated"])
                    ELSE v
    IN /\ updateData(Spread(state, [vendors |-> Map(stamp, state.vendors)]))
       /\ UNCHANGED <<isCloudConnected, cloud, timers, uuidSeq, uploadVars, mergeVars>>
       /\ withinBounds
       /\ timePasses

clearDatabase ==
    /\ updateData(INITIAL_STATE)
    /\ UNCHANGED <<isCloudConnected, cloud, timers, uuidSeq, uploadVars, mergeVars>>
    /\ withinBounds
    /\ timePasses

\* checkConfig / handleConfigSave: verifyConnection answers
ConnectionVerified(valid) ==
    /\ isCloudConnected' = valid
    /\ UNCHANGED <<state, localStorage, syncStatus, cloud, saving, timers,
                   uuidSeq, now, uploadVars, mergeVars>>

removeAt(seq, i) == SubSeq(seq, 1, i - 1) \o SubSeq(seq, i + 1, Len(seq))

\* saveDataToCloud(newData).then(...): the document is written
SaveResolved(i) ==
    /\ timers < MaxTimers
    /\ cloud' = saving[i]
    /\ saving' = removeAt(saving, i)
    /\ syncStatus' = "saved"
    /\ timers' = timers + 1
    /\ UNCHANGED <<state, localStorage, isCloudConnected, uuidSeq, now,
                   uploadVars, mergeVars>>

\* saveDataToCloud(newData).catch(...)
SaveRejected(i) ==
    /\ saving' = removeAt(saving, i)
    /\ syncStatus' = "error"
    /\ UNCHANGED <<state, localStorage, isCloudConnected, cloud, timers,
                   uuidSeq, now, uploadVars, mergeVars>>

\* setTimeout(() => setSyncStatus('idle'), 3000)
TimerFired ==
    /\ timers > 0
    /\ timers' = timers - 1
    /\ syncStatus' = "idle"
    /\ UNCHANGED <<state, localStorage, isCloudConnected, cloud, saving,
                   uuidSeq, now, uploadVars, mergeVars>>

\* mutant: the entities the remote document does not hold are kept
RemoteChange_mergesLocal ==
    LET migratedData == Spread(cloud,
                               [venues |-> Map(migrateVibe, cloud.venues)])
        remoteIds == { migratedData.venues[i].id :
                         i \in 1..Len(migratedData.venues) }
        localOnly(v) == v.id \notin remoteIds
        mergedData == Spread(migratedData,
                          [venues |-> migratedVenues(migratedData.venues)
                                        \o SelectSeq(state.venues, localOnly)])
    IN /\ isCloudConnected
       /\ cloud # state
       /\ state' = mergedData
       /\ localStorage' = mergedData
       /\ syncStatus' = "saved"
       /\ UNCHANGED saving
       /\ UNCHANGED <<isCloudConnected, cloud, timers, uuidSeq, now,
                      uploadVars, mergeVars>>

\* the callback of startAutoSync: the remote document replaces the state,
\* and the backfill effect runs on the new state.venues
RemoteChange ==
    LET migratedData == Spread(cloud,
                               [venues |-> Map(migrateVibe, cloud.venues)])
        backfilled == Spread(migratedData,
                          [venues |-> migratedVenues(migratedData.venues)])
    IN /\ isCloudConnected
       /\ cloud # state
       /\ IF hasUpdates(migratedData.venues)
          THEN /\ state' = backfilled
               /\ localStorage' = backfilled
               /\ syncStatus' = "saving"
               /\ saving' = Append(saving, backfilled)
          ELSE /\ state' = migratedData
               /\ localStorage' = migratedData
               /\ syncStatus' = "saved"
               /\ UNCHANGED saving
       /\ Len(saving') <= MaxSaving
       /\ UNCHANGED <<isCloudConnected, cloud, timers, uuidSeq, now,
                      uploadVars, mergeVars>>

\* another device writes the remote document
RemoteWrite(data) ==
    /\ isCloudConnected
    /\ cloud' = data
    /\ UNCHANGED <<state, localStorage, isCloudConnected, syncStatus, saving,
                   timers, uuidSeq, now, uploadVars, mergeVars>>

\* handleEnrichVenue(venueId) up to its await: the handler keeps the state,
\* the venue and the updateData of the render it was created in
EnrichStart(venueId) ==
    /\ Len(calls) < MaxCalls
    /\ \E i \in 1..Len(state.venues) :
          /\ state.venues[i].id = venueId
          /\ \A j \in 1..(i - 1) : state.venues[j].id # venueId
          /\ calls' = Append(calls,
                [kind |-> "enrich", venue |-> state.venues[i], state |-> state,
                 connected |-> isCloudConnected])
    /\ timePasses
    /\ UNCHANGED <<state, localStorage, isCloudConnected, syncStatus, cloud,
                   saving, timers, uuidSeq, isLoading, error, batch,
                   mergeVars>>

\* await findVenueUrl(...) resolves with a URL, or with null ("")
EnrichResolved(c, url) ==
    LET call == calls[c]
        venue == call.venue
        updatedVenue ==
            Spread(venue,
                   [website_url |-> url, lastUpdated |-> now,
                    updateDescription |->
                        "Website URL added via Magic Search"])
        put(v) == IF v.id = updatedVenue.id THEN updatedVenue ELSE v
    IN /\ call.kind = "enrich"
       /\ calls' = removeAt(calls, c)
       /\ IF url # ""
          THEN updateDataFrom(call.connected,
                   Spread(call.state,
                          [venues |-> Map(put, call.state.venues)]))
          ELSE UNCHANGED <<state, localStorage, syncStatus, saving>>
       /\ Len(saving') <= MaxSaving
       /\ UNCHANGED <<isCloudConnected, cloud, timers, uuidSeq, now,
                      isLoading, error, batch, mergeVars>>

\* handleForceSync up to its await
ForceSyncStart ==
    /\ isCloudConnected
    /\ Len(calls) < MaxCalls
    /\ calls' = Append(calls, [kind |-> "forceSync"])
    /\ timePasses
    /\ UNCHANGED <<state, localStorage, isCloudConnected, syncStatus, cloud,
                   saving, timers, uuidSeq, isLoading, error, batch,
                   mergeVars>>

\* await fetchFromCloud() resolves with the remote document: it replaces
\* the state, and the backfill effect runs on the new state.venues
ForceSyncResolved(c) ==
    LET migratedData == Spread(cloud,
                               [venues |-> Map(migrateVibe, cloud.venues)])
        backfilled == Spread(migratedData,
                          [venues |-> migratedVenues(migratedData.venues)])
        effect == hasUpdates(migratedData.venues)
    IN /\ calls[c].kind = "forceSync"
       /\ timers < MaxTimers
       /\ calls' = removeAt(calls, c)
       /\ state' = backfilled
       /\ localStorage' = backfilled
       /\ timers' = timers + 1
       /\ syncStatus' = IF effect /\ isCloudConnected THEN "saving"
                        ELSE "saved"
       /\ saving' = IF effect /\ isCloudConnected
                    THEN Append(saving, backfilled) ELSE saving
       /\ Len(saving') <= MaxSaving
       /\ UNCHANGED <<isCloudConnected, cloud, uuidSeq, now, isLoading,
                      error, batch, mergeVars>>

\* await fetchFromCloud() rejects
ForceSyncRejected(c) ==
    /\ calls[c].kind = "forceSync"
    /\ calls' = removeAt(calls, c)
    /\ syncStatus' = "error"
    /\ UNCHANGED <<state, localStorage, isCloudConnected, cloud, saving,
                   timers, uuidSeq, now, isLoading, error, batch, mergeVars>>

\* the URLs found by the search; "" stands for null
FoundUrls == {"", "https://oakbarn.example"}

\* what the extraction of the latest version returns (vibe is a string)
SpecVenueRecords ==
    { [venue_name |-> "OAK BARN", location |-> "Austin, TX", city |-> "Austin",
       state |-> "TX", vibe |-> [str |-> "Rustic, Barn"],
       total_cost_pp |-> 1500],
      [venue_name |-> "Elm Hall", location |-> "Austin, TX", city |-> "Austin",
       state |-> "TX", vibe |-> [str |-> "Modern"], total_cost_pp |-> 1000] }

SpecVendorRecords ==
    { [vendor_name |-> "Lens Co", category |-> "Photographer",
       price |-> 1000, notes |-> ""] }

\* the names typed into the venue form
FormNames == {"Oak Barn"}

\* a document written by another device: a venue of the old schema
RemoteDocuments ==
    { [venues |-> <<[id |-> "remote-1", venue_name |-> "oak barn",
                     location |-> "Austin, TX", vibe |-> [str |-> "rustic"],
                     total_cost_pp |-> 900]>>,
       vendors |-> <<>>] }

Statuses == {"Maybe"}

Init ==
    /\ IdleInit
    /\ boot = "mounted"
    /\ state = INITIAL_STATE
    /\ localStorage = state
    /\ uuidSeq = 0
    /\ now = 1
    /\ hist = <<>>
    /\ input = <<>>

Next ==
    \/ \E data \in ListsUpTo(SpecVenueRecords, MaxRecords) \ {<<>>} :
          UploadVenuesComplete(data)
    \/ \E data \in ListsUpTo(SpecVendorRecords, MaxRecords) \ {<<>>} :
          UploadVendorsComplete(data)
    \/ \E name \in FormNames :
          handleAddVenue(formData(<<>>, name, "rustic"))
    \/ \E i \in 1..Len(state.venues) :
          \/ \E name \in FormNames :
                handleVenueUpdate(
                    Spread(formData(state.venues[i], name,
                                    joinComma(state.venues[i].vibe.arr)),
                           [id |-> state.venues[i].id]))
          \/ \E st \in Statuses :
                handleVenueUpdate(Spread(state.venues[i], [status |-> st]))
          \/ handleDeleteVenue(state.venues[i].id)
    \/ \E i \in 1..Len(state.vendors), st \in Statuses :
          handleVendorUpdate(Spread(state.vendors[i], [status |-> st]))
    \/ clearDatabase
    \/ \E valid \in BOOLEAN : ConnectionVerified(valid)
    \/ \E i \in 1..Len(saving) : SaveResolved(i) \/ SaveRejected(i)
    \/ TimerFired
    \/ RemoteChange
    \/ \E data \in RemoteDocuments : RemoteWrite(data)
    \/ \E i \in 1..Len(state.venues) : EnrichStart(state.venues[i].id)
    \/ \E c \in 1..Len(calls), url \in FoundUrls : EnrichResolved(c, url)
    \/ ForceSyncStart
    \/ \E c \in 1..Len(calls) : ForceSyncResolved(c) \/ ForceSyncRejected(c)

Spec == Init /\ [][Next]_vars

----------------------------------------------------------------------------
\* Startup: the App component is mounted over whatever the browser kept under
\* 'wedding_planner_data'.

\* What localStorage.getItem finds: nothing, or a text.  A text JSON.parse
\* accepts is described by the value it parses to, tagged by its JSON type:
\* null, a number, an array, or an object with its fields.
absent == [kind |-> "absent"]
savedText(s) == [kind |-> "text", text |-> s]
savedJSON(value) == [kind |-> "json", value |-> value]

jsNull == [t |-> "null"]
jsNumber(n) == [t |-> "number", number |-> n]
jsString(s) == [t |-> "string", string |-> s]
jsArray(elements) == [t |-> "array", elements |-> elements]
jsObject(fields) == [t |-> "object", fields |-> fields]

\* if (saved)
truthySaved(saved) ==
    \/ saved.kind = "json"
    \/ saved.kind = "text" /\ saved.text # ""

\* JSON.parse(saved) returns instead of throwing
parses(saved) == saved.kind = "json"

\* if (parsedState.fieldsenues), for a parsedState that is not null
truthyField(J, f) ==
    /\ J.t = "object"
    /\ Has(J.fields, f)
    /\ J.fields[f].t \in {"array", "object"} \/ (J.fields[f].t = "string" /\ J.fields[f].string # "")

\* INITIAL_STATE as a JSON value
initialJSON == jsObject([venues |-> jsArray(<<>>), vendors |-> jsArray(<<>>)])

\* the useState initializer of the latest version
initializer(saved) ==
    IF ~truthySaved(saved) \/ ~parses(saved) THEN initialJSON
    ELSE LET parsedState == saved.value
         IN IF parsedState.t = "null"
            THEN initialJSON            \* reading .venues of null: caught
            ELSE IF truthyField(parsedState, "venues")
            THEN IF parsedState.fields.venues.t = "array"
                 THEN jsObject(Spread(parsedState.fields,
                         [venues |->
                             jsArray(Map(migrateVibe, parsedState.fields.venues.elements))]))
                 ELSE initialJSON       \* .map is not a function: caught
            ELSE parsedState

\* the useState initializer of the first version
initializerFirstVersion(saved) ==
    IF truthySaved(saved) /\ parses(saved) THEN saved.value ELSE initialJSON

\* the first render maps over state.venues (VenueList), and so does the
\* backfill effect of the latest version: a TypeError unless it is an array
firstRenderThrows(J) ==
    ~(J.t = "object" /\ Has(J.fields, "venues") /\ J.fields.venues.t = "array")

\* the value the component holds as its state: an object by its fields, an
\* array by its elements, anything else as it is
stateOf(J) ==
    IF J.t = "object"
    THEN [k \in DOMAIN J.fields |-> IF J.fields[k].t = "array" THEN J.fields[k].elements ELSE J.fields[k]]
    ELSE J

\* mount of the latest version: initializer, first render, backfill effect
AppMount ==
    /\ boot = "stored"
    /\ input' = localStorage
    /\ LET initial == initializer(localStorage)
       IN IF firstRenderThrows(initial)
          THEN /\ boot' = "crashed"
               /\ state' = stateOf(initial)
               /\ UNCHANGED <<localStorage, saving, syncStatus>>
          ELSE /\ boot' = "mounted"
               /\ IF hasUpdates(stateOf(initial).venues)
                  THEN updateData(stateOf(initial))
                  ELSE /\ state' = stateOf(initial)
                       /\ UNCHANGED <<localStorage, saving, syncStatus>>
    /\ UNCHANGED <<isCloudConnected, cloud, timers, uuidSeq, now, uploadVars,
                   hist>>

\* mount of the first version: initializer and first render
AppMountFirstVersion ==
    /\ boot = "stored"
    /\ input' = localStorage
    /\ LET initial == initializerFirstVersion(localStorage)
       IN /\ boot' = IF firstRenderThrows(initial) THEN "crashed" ELSE "mounted"
          /\ state' = stateOf(initial)
    /\ UNCHANGED <<localStorage, saving, syncStatus, isCloudConnected, cloud,
                   timers, uuidSeq, now, uploadVars, hist>>

\* venues as earlier sessions stored them: the current schema, the old schema
\* (vibe a string, no city and state), and one without vibe and location
StoredVenues ==
    { [id |-> "uuid-1", venue_name |-> "Oak Barn", location |-> "Austin, TX",
       city |-> "Austin", state |-> "TX", vibe |-> [arr |-> <<"Rustic">>],
       total_cost_pp |-> 1500, status |-> "Maybe"],
      [id |-> "uuid-2", venue_name |-> "Elm Hall", location |-> "Austin, TX",
       vibe |-> [str |-> "modern, loft"], total_cost_pp |-> 1000,
       status |-> "Haven't looked"],
      [id |-> "uuid-3", venue_name |-> "Ash Court", total_cost_pp |-> 0,
       status |-> "Haven't looked"],
      [id |-> "uuid-4", venue_name |-> "Fir Lodge", location |-> "Unknown",
       city |-> "Unknown", state |-> "Unknown", vibe |-> [str |-> ""],
       total_cost_pp |-> 800, status |-> "No"] }

StoredVendors ==
    { [id |-> "uuid-9", vendor_name |-> "Lens Co", category |-> "Photographer",
       price |-> 1000, notes |-> "", status |-> "Maybe"] }

\* snapshots written by updateData
StateSnapshots ==
    { savedJSON(jsObject([venues |-> jsArray(vs), vendors |-> jsArray(ws)])) :
        vs \in ListsUpTo(StoredVenues, MaxEntities),
        ws \in ListsUpTo(StoredVendors, MaxRecords) }

\* texts that are no snapshot of a state
CorruptSnapshots ==
    { savedText("{\"venues\":[") } \cup
    { savedJSON(J) : J \in
        { jsNull, jsNumber(42), jsString("reset"), jsArray(<<>>),
          jsObject(<<>>),
          jsObject([venues |-> jsArray(<<>>)]),
          jsObject([vendors |-> jsArray(<<>>)]),
          jsObject([venues |-> jsNull, vendors |-> jsArray(<<>>)]),
          jsObject([venues |-> jsString("none"), vendors |-> jsArray(<<>>)]),
          jsObject([venues |-> jsObject(<<>>), vendors |-> jsArray(<<>>)]),
          jsObject([venues |-> jsArray(<<>>), vendors |-> jsNull]) } }

StoredItems == {absent, savedText("")} \cup StateSnapshots \cup CorruptSnapshots

\* before the mount the component holds no state: state is a placeholder
StartupInit ==
    /\ IdleInit
    /\ boot = "stored"
    /\ localStorage \in StoredItems
    /\ state = INITIAL_STATE
    /\ uuidSeq = 0
    /\ now = 1
    /\ hist = <<>>
    /\ input = <<>>

StartupNext == AppMount \/ AppMountFirstVersion

StartupSpec == StartupInit /\ [][StartupNext]_vars

----------------------------------------------------------------------------
\* The upload queue behind <FileUpload onProcessFile=... onComplete=...>: one
\* job per file, processed one at a time; once every job is terminal the
\* buffered records go to onComplete.  batch holds the queue: its jobs, the
\* buffered results, the batch-complete flag, the ids issued so far.

MaxJobs == 2
MaxIssued == 3

jobId(n) == "job-" \o ToString(n)

JobIds == { jobId(n) : n \in 1..(MaxIssued + 1) }

QueuedJob(id) ==
    [id |-> id, status |-> "Queued", errorMessage |-> "", resultCount |-> 0]

indexOfJob(id) ==
    IF \E i \in 1..Len(batch.jobs) : batch.jobs[i].id = id
    THEN CHOOSE i \in 1..Len(batch.jobs) : batch.jobs[i].id = id
    ELSE 0

statusOfJob(id) ==
    IF indexOfJob(id) = 0 THEN "none" ELSE batch.jobs[indexOfJob(id)].status

queueComplete ==
    /\ Len(batch.jobs) >= 1
    /\ \A i \in 1..Len(batch.jobs) :
          batch.jobs[i].status \in {"Succeeded", "Failed"}

\* the queue only
queueFrame ==
    UNCHANGED <<appVars, isLoading, error, calls, input, boot>>

\* enqueue(files): new jobs, Queued, with fresh ids; the batch is open again
enqueue(n) ==
    /\ n >= 1
    /\ Len(batch.jobs) + n <= MaxJobs
    /\ batch.issued + n <= MaxIssued
    /\ batch' = [batch EXCEPT
                    !.jobs = batch.jobs \o
                        [j \in 1..n |-> QueuedJob(jobId(batch.issued + j))],
                    !.issued = batch.issued + n,
                    !.complete = FALSE]
    /\ hist' = <<[op |-> "enqueue"]>>
    /\ queueFrame

\* mutant: a remove that takes the job out whatever its status
remove_anyStatus(id) ==
    /\ indexOfJob(id) # 0
    /\ batch' = [batch EXCEPT !.jobs = removeAt(batch.jobs, indexOfJob(id))]
    /\ hist' = <<[op |-> "remove", id |-> id, accepted |-> TRUE]>>
    /\ queueFrame

\* remove(jobId): takes a Queued job out of the queue; otherwise rejected
remove(id) ==
    /\ indexOfJob(id) # 0
    /\ IF statusOfJob(id) = "Queued"
       THEN /\ batch' = [batch EXCEPT
                            !.jobs = removeAt(batch.jobs, indexOfJob(id))]
            /\ hist' = <<[op |-> "remove", id |-> id, accepted |-> TRUE]>>
       ELSE /\ batch' = batch
            /\ hist' = <<[op |-> "remove", id |-> id, accepted |-> FALSE]>>
    /\ queueFrame

\* reset(): clears the jobs and the buffered results of a complete batch
reset ==
    /\ queueComplete
    /\ batch' = [batch EXCEPT !.jobs = <<>>, !.results = <<>>,
                              !.complete = FALSE]
    /\ hist' = <<[op |-> "reset"]>>
    /\ queueFrame

\* the driver: nothing is Processing, so the first Queued job starts
processNext ==
    /\ \A i \in 1..Len(batch.jobs) : batch.jobs[i].status # "Processing"
    /\ \E i \in 1..Len(batch.jobs) :
          /\ batch.jobs[i].status = "Queued"
          /\ \A k \in 1..(i - 1) : batch.jobs[k].status # "Queued"
          /\ batch' = [batch EXCEPT !.jobs[i].status = "Processing"]
    /\ hist' = <<[op |-> "processNext"]>>
    /\ queueFrame

\* onProcessFile(file) resolves with the records of the file
jobSucceeded(i, extractedList) ==
    /\ batch.jobs[i].status = "Processing"
    /\ batch' = [batch EXCEPT
                    !.jobs[i].status = "Succeeded",
                    !.jobs[i].resultCount = Len(extractedList),
                    !.results = batch.results \o extractedList]
    /\ hist' = <<[op |-> "jobSucceeded"]>>
    /\ queueFrame

\* onProcessFile(file) rejects
jobFailed(i, err) ==
    /\ batch.jobs[i].status = "Processing"
    /\ batch' = [batch EXCEPT
                    !.jobs[i].status = "Failed",
                    !.jobs[i].errorMessage = errorMessage(err)]
    /\ hist' = <<[op |-> "jobFailed"]>>
    /\ queueFrame

\* every job is terminal: onComplete(results), here handleVenueComplete
batchComplete ==
    /\ queueComplete
    /\ ~batch.complete
    /\ batch' = [batch EXCEPT !.complete = TRUE,
                              !.completions = batch.completions + 1]
    /\ handleVenueComplete(batch.results)
    /\ hist' = <<[op |-> "batchComplete"]>>
    /\ UNCHANGED <<isCloudConnected, cloud, timers, isLoading, error, calls,
                   input, boot>>
    /\ withinBounds
    /\ timePasses

QueueInit ==
    /\ isCloudConnected = FALSE
    /\ syncStatus = "idle"
    /\ cloud = INITIAL_STATE
    /\ saving = <<>>
    /\ timers = 0
    /\ isLoading = FALSE
    /\ error = ""
    /\ calls = <<>>
    /\ batch = [jobs |-> <<>>, results |-> <<>>, complete |-> FALSE,
                completions |-> 0, issued |-> 0]
    /\ boot = "mounted"
    /\ state = INITIAL_STATE
    /\ localStorage = state
    /\ uuidSeq = 0
    /\ now = 1
    /\ hist = <<>>
    /\ input = <<>>

QueueNext ==
    \/ \E n \in 1..MaxJobs : enqueue(n)
    \/ \E id \in JobIds : remove(id)
    \/ reset
    \/ processNext
    \/ \E i \in 1..Len(batch.jobs) :
          \E extractedList \in ListsUpTo(SpecVenueRecords, MaxRecords) :
             jobSucceeded(i, extractedList)
    \/ \E i \in 1..Len(batch.jobs), err \in Rejections : jobFailed(i, err)
    \/ batchComplete

QueueSpec == QueueInit /\ [][QueueNext]_vars

----------------------------------------------------------------------------
(* BatchSpec: one batch of extracted records handed to handleVenueComplete *)
(* or handleVendorComplete, over each collection of a bounded family       *)

MaxBatch == 2      \* records of one batch
MaxStored == 2     \* entities stored before the batch

\* stored venues: two with the same key ("Oak Barn", "oak barn"), one other
BatchVenues ==
    { Spread(BaseVenue, [status |-> "Maybe", lastUpdated |-> 0,
                         updateDescription |-> "Manually added"]) }
    \cup FillerVenues

BatchVendors ==
    { Spread(BaseVendor, [status |-> "Maybe", lastUpdated |-> 0,
                          updateDescription |-> "Manually added"]) }
    \cup FillerVendors

\* the records of a batch: keys that are stored and keys that are not, the
\* latter in two spellings
BatchVenueRecords ==
    { [venue_name |-> np[1], location |-> "Austin, TX 78701",
       vibe |-> [str |-> "Rustic, Barn"], total_cost_pp |-> np[2]] :
        np \in { <<"Pine Lodge", 1000>>, <<"PINE LODGE", 1500>>,
                 <<"OAK BARN", 1500>>, <<"Elm Hall", 1000>> } }

BatchVendorRecords ==
    { [vendor_name |-> r[1], category |-> r[2], price |-> r[3],
       notes |-> "wxyz"] :
        r \in { <<"Bloom", "Florist", 1000>>, <<"BLOOM", "florist", 1500>>,
                <<"Bloom", "Photographer", 1000>>,
                <<"LENS CO", "photographer", 1500>> } }

StoredLists(S) == { q \in SeqsUpTo(S, MaxStored) : NoRepeat(q) }

BatchInit ==
    /\ IdleInit
    /\ boot = "mounted"
    /\ \/ /\ input \in [kind : {"venue"},
                        data : ListsUpTo(BatchVenueRecords, MaxBatch) \ {<<>>}]
          /\ state \in [venues : StoredLists(BatchVenues),
                        vendors : {<<TheVendor>>}]
       \/ /\ input \in [kind : {"vendor"},
                        data : ListsUpTo(BatchVendorRecords, MaxBatch) \ {<<>>}]
          /\ state \in [venues : {<<TheVenue>>},
                        vendors : StoredLists(BatchVendors)]
    /\ localStorage = state
    /\ uuidSeq = 4
    /\ now = 1
    /\ hist = <<>>

\* onComplete={handleVenueComplete} called with the records of the batch
BatchVenuesComplete ==
    /\ input.kind = "venue"
    /\ hist = <<>>
    /\ handleVenueComplete(input.data)
    /\ hist' = <<state>>
    /\ now' = now + 1
    /\ UNCHANGED <<isCloudConnected, cloud, timers, uploadVars, input, boot>>

\* onComplete={handleVendorComplete} called with the records of the batch
BatchVendorsComplete ==
    /\ input.kind = "vendor"
    /\ hist = <<>>
    /\ handleVendorComplete(input.data)
    /\ hist' = <<state>>
    /\ now' = now + 1
    /\ UNCHANGED <<isCloudConnected, cloud, timers, uploadVars, input, boot>>

BatchNext == BatchVenuesComplete \/ BatchVendorsComplete

BatchSpec == BatchInit /\ [][BatchNext]_vars

----------------------------------------------------------------------------
(* BackfillSpec: the city/state backfill effect run on venue collections
   of every shape, until state.venues stops changing *)

MaxVenues == 2     \* venues of the collection the effect starts from

\* locations with and without commas, zip codes, parentheses and text
Locations ==
    { "", " ", "Austin", "Austin, TX 78701", "6 Elm St, Napa, CA (wine)",
      ",", "Austin, 78701" }

\* venues whose city and state are missing, empty or set
BackfillVenues ==
    { Spread(Spread([id |-> "uuid-1", venue_name |-> "Oak Barn",
                     location |-> l, vibe |-> [arr |-> <<>>],
                     status |-> "Maybe"],
                    Frag("city", c # "absent", IF c = "empty" THEN "" ELSE c)),
             Frag("state", st # "absent", IF st = "empty" THEN "" ELSE st)) :
        l \in Locations, c \in {"absent", "empty", "Dallas"},
        st \in {"absent", "empty", "TX"} }

\* the effect runs after the first render and after every render in which
\* state.venues differs from the venues of the run before
effectPending ==
    IF hist = <<>> THEN TRUE ELSE hist[Len(hist)].venues # state.venues

BackfillInit ==
    /\ IdleInit
    /\ boot = "mounted"
    /\ isCloudConnected \in BOOLEAN
    /\ input = [kind |-> "venue", data |-> <<>>]
    /\ state \in [venues : ListsUpTo(BackfillVenues, MaxVenues),
                  vendors : {<<>>}]
    /\ localStorage = state
    /\ uuidSeq = 1
    /\ now = 1
    /\ hist = <<>>

\* one run of the effect; hist keeps the state each run started from
BackfillEffect ==
    /\ effectPending
    /\ hist' = Append(hist, state)
    /\ IF hasUpdates(state.venues)
       THEN LET newData == Spread(state,
                              [venues |-> migratedVenues(state.venues)])
            IN /\ state' = newData
               /\ localStorage' = newData
               /\ pushAll(<<newData>>)
       ELSE UNCHANGED <<state, localStorage, syncStatus, saving>>
    /\ UNCHANGED <<isCloudConnected, cloud, timers, uuidSeq, now, uploadVars,
                   input, boot>>

BackfillNext == BackfillEffect

BackfillSpec == BackfillInit /\ [][BackfillNext]_vars

----------------------------------------------------------------------------
(* VibeSpec: the latest App loaded from a stored snapshot, then fed venues
   by every path, with a vibe that is a string, an array or missing *)

\* extracted records: vibe a string with blanks, empty, an array, missing
VibeRecords ==
    { Spread([venue_name |-> "OAK BARN", location |-> "Austin, TX",
              total_cost_pp |-> 1500], f) :
        f \in { [vibe |-> [str |-> "Rustic , Barn "]],
                [vibe |-> [str |-> ""]],
                [vibe |-> [arr |-> <<"Rustic">>]],
                Frag("vibe", FALSE, "") } }

\* documents written by other devices: vibe a string, an array, missing
VibeDocuments ==
    { [venues |-> <<Spread([id |-> "remote-1", venue_name |-> "oak barn",
                            location |-> "Austin, TX", city |-> "Austin",
                            state |-> "TX", total_cost_pp |-> 900], f)>>,
       vendors |-> <<>>] :
        f \in { [vibe |-> [str |-> " modern ,loft"]],
                [vibe |-> [arr |-> <<"Loft">>]],
                Frag("vibe", FALSE, "") } }

\* the text typed into the vibe input of the venue form
VibeInputs == {" rustic, ,barn"}

\* the state after the mount on a snapshot: initializer, then the backfill
VibeInit ==
    /\ IdleInit
    /\ boot = "mounted"
    /\ \E vs \in ListsUpTo(StoredVenues, MaxRecords) :
          LET stored == [venues |-> vs, vendors |-> <<>>]
              initial == stateOf(initializer(savedJSON(jsObject(
                            [venues |-> jsArray(vs),
                             vendors |-> jsArray(<<>>)]))))
          IN IF hasUpdates(initial.venues)
             THEN /\ state = Spread(initial,
                               [venues |-> migratedVenues(initial.venues)])
                  /\ localStorage = state
             ELSE /\ state = initial
                  /\ localStorage = stored
    /\ uuidSeq = 0
    /\ now = 1
    /\ hist = <<>>
    /\ input = <<>>

VibeNext ==
    \/ \E data \in ListsUpTo(VibeRecords, MaxRecords) \ {<<>>} :
          UploadVenuesComplete(data)
    \/ \E name \in FormNames, typed \in VibeInputs :
          handleAddVenue(formData(<<>>, name, typed))
    \/ \E i \in 1..Len(state.venues), typed \in VibeInputs :
          handleVenueUpdate(
              Spread(formData(state.venues[i], state.venues[i].venue_name,
                              typed),
                     [id |-> state.venues[i].id]))
    \/ \E valid \in BOOLEAN : ConnectionVerified(valid)
    \/ \E i \in 1..Len(saving) : SaveResolved(i)
    \/ TimerFired
    \/ RemoteChange
    \/ \E data \in VibeDocuments : RemoteWrite(data)
    \/ ForceSyncStart
    \/ \E c \in 1..Len(calls) : ForceSyncResolved(c) \/ ForceSyncRejected(c)

VibeSpec == VibeInit /\ [][VibeNext]_vars

----------------------------------------------------------------------------
(* Properties of a merge, stated on MergeSpec *)

merged == Len(hist) >= 1

\* the collection of the uploaded kind in an application state
collOf(st) == IF input.kind = "venue" THEN st.venues ELSE st.vendors

\* the collection before the first merge, after it, and after the second
collBefore == collOf(hist[1])
collOnce == IF Len(hist) >= 2 THEN collOf(hist[2]) ELSE collOf(state)
collTwice == collOf(state)

\* the natural key: case-insensitive name (and category, for vendors)
sameKey(v) ==
    IF input.kind = "venue"
    THEN toLowerCase(v.venue_name) = toLowerCase(input.rec.venue_name)
    ELSE /\ toLowerCase(v.vendor_name) = toLowerCase(input.rec.vendor_name)
         /\ toLowerCase(v.category) = toLowerCase(input.rec.category)

matching == { i \in 1..Len(collBefore) : sameKey(collBefore[i]) }

\* the entity the record is merged onto
target == CHOOSE i \in matching : \A j \in matching : i <= j

sameField(a, b, f) == (Has(a, f) <=> Has(b, f)) /\ (Has(a, f) => a[f] = b[f])

idsOf(list) == { list[i].id : i \in 1..Len(list) }

\* C4: a record whose natural key matches no entity grows the collection by
\* exactly one entity, whose id differs from every id already present.
C4_NoMatchAppendsFreshId ==
    (merged /\ matching = {}) =>
        /\ Len(collOnce) = Len(collBefore) + 1
        /\ collOnce[Len(collOnce)].id \notin idsOf(collBefore)

C4_Witness ==
    /\ Len(hist) = 1
    /\ matching = {}
    /\ Len(collBefore) >= 1
    /\ Len(collOnce) = Len(collBefore) + 1

\* C5 (as stated): a record matching exactly one entity changes neither the
\* collection size nor that entity's status field, whatever it was.
C5_StatusFieldNeverChanges ==
    (merged /\ Cardinality(matching) = 1) =>
        /\ Len(collOnce) = Len(collBefore)
        /\ sameField(collOnce[target], collBefore[target], "status")

\* C5 (amended): the size is unchanged and a status the entity has is kept;
\* an entity without a status gets the default status.
C5_StatusKeptOrDefaulted ==
    (merged /\ Cardinality(matching) = 1) =>
        /\ Len(collOnce) = Len(collBefore)
        /\ Has(collOnce[target], "status")
        /\ collOnce[target].status =
              (IF TruthyStr(collBefore[target], "status")
               THEN collBefore[target].status ELSE DefaultStatus)

C5_Witness ==
    /\ Len(hist) = 1
    /\ Cardinality(matching) = 1
    /\ TruthyStr(collBefore[target], "status")
    /\ collBefore[target].status = "Maybe"
    /\ collOnce[target] # collBefore[target]

interesting ==
    IF input.kind = "venue"
    THEN {"total_cost_pp", "cocktail_cost_pp", "site_fee", "capacity"}
    ELSE {"price"}

interestingEqual ==
    \A f \in interesting : sameField(input.rec, collBefore[target], f)

auditUnchanged ==
    /\ sameField(collOnce[target], collBefore[target], "lastUpdated")
    /\ sameField(collOnce[target], collBefore[target], "updateDescription")

\* the notes of the record and of the entity are both non-empty and differ
\* in length
notesLengthDiffers ==
    /\ input.kind = "venue"
    /\ TruthyStr(input.rec, "notes")
    /\ TruthyStr(collBefore[target], "notes")
    /\ Len(input.rec.notes) # Len(collBefore[target].notes)

\* C6 (as stated): when every interesting field of the record equals the
\* matched entity's value, the entity's lastUpdated and updateDescription
\* are unchanged, whatever the other fields of the record are.
C6_EqualInterestingKeepsAudit ==
    (merged /\ matching # {} /\ interestingEqual) => auditUnchanged

\* C6 (amended): ... unchanged, provided the notes of the record or of the
\* entity are empty or both have the same length.
C6_EqualInterestingAndNotesKeepAudit ==
    (merged /\ matching # {} /\ interestingEqual /\ ~notesLengthDiffers)
        => auditUnchanged

C6_Witness ==
    /\ Len(hist) = 1
    /\ matching # {}
    /\ interestingEqual
    /\ ~notesLengthDiffers
    /\ Has(collBefore[target], "updateDescription")
    /\ collOnce[target] # collBefore[target]

\* an entity without its audit timestamp
noTime(e) == Without(e, "lastUpdated")

\* C7: merging the same record twice in succession gives the same collection
\* as merging it once, up to the audit timestamp.
C7_TwiceSameAsOnce ==
    Len(hist) = 2 =>
        /\ Len(collTwice) = Len(collOnce)
        /\ \A i \in 1..Len(collOnce) : noTime(collTwice[i]) = noTime(collOnce[i])

C7_Witness ==
    /\ Len(hist) = 2
    /\ matching # {}
    /\ collOnce[target] # collBefore[target]
    /\ ~auditUnchanged

\* the scenario of C9: "Oak Barn" at cost 1000, "OAK BARN" uploaded at 1500
oakBarnScenario ==
    /\ merged
    /\ matching # {}
    /\ IF input.kind = "venue"
       THEN /\ collBefore[target].venue_name = "Oak Barn"
            /\ collBefore[target].total_cost_pp = 1000
            /\ input.rec.venue_name = "OAK BARN"
            /\ input.rec.total_cost_pp = 1500
       ELSE /\ collBefore[target].vendor_name = "Lens Co"
            /\ collBefore[target].price = 1000
            /\ input.rec.vendor_name = "LENS CO"
            /\ input.rec.price = 1500

costOf(e) == IF input.kind = "venue" THEN e.total_cost_pp ELSE e.price

sameEntityUpdated ==
    /\ Len(collOnce) = Len(collBefore)
    /\ collOnce[target].id = collBefore[target].id
    /\ costOf(collOnce[target]) = 1500
    /\ Has(collOnce[target], "updateDescription")

\* C9 (as stated): the same entity is updated to cost 1500 and its audit
\* note contains "1000 to 1500".
C9_NoteContainsPlainValues ==
    oakBarnScenario =>
        /\ sameEntityUpdated
        /\ includes(collOnce[target].updateDescription, "1000 to 1500")

\* C9 (amended): the same entity is updated to cost 1500 and its audit note
\* contains the old and the new value as "from $1000 to $1500".
C9_NoteContainsDollarValues ==
    oakBarnScenario =>
        /\ sameEntityUpdated
        /\ includes(collOnce[target].updateDescription, "from $1000 to $1500")

C9_Witness ==
    /\ Len(hist) = 1
    /\ oakBarnScenario
    /\ input.kind = "venue"
    /\ collOnce[target].venue_name = "OAK BARN"

numberFields ==
    {"total_cost_pp", "cocktail_cost_pp", "site_fee", "capacity",
     "booking_cost", "price"}

textFields == {"notes", "admin_fees", "site_fee_notes", "location"}

\* C10: an extracted field that is zero or empty never overwrites a known
\* (non-zero, non-empty) value of the matched entity, for every field.
C10_ZeroOrEmptyNeverOverwrites ==
    (merged /\ matching # {}) =>
        /\ \A f \in numberFields :
              (/\ Has(input.rec, f) /\ input.rec[f] = 0
               /\ TruthyNum(collBefore[target], f))
                 => sameField(collOnce[target], collBefore[target], f)
        /\ \A f \in textFields :
              (/\ Has(input.rec, f) /\ input.rec[f] = ""
               /\ TruthyStr(collBefore[target], f))
                 => sameField(collOnce[target], collBefore[target], f)

----------------------------------------------------------------------------
(* Properties of an upload, stated on UploadSpec *)

\* a job is a file of the batch; its status follows the handler's loop
terminal(job) == job.status \in {"Succeeded", "Failed"}

jobsWith(status) == { j \in DOMAIN batch.jobs : batch.jobs[j].status = status }

\* the handler started by the last drop has returned
batchOver == Len(batch.jobs) > 0 /\ calls = <<>>

\* C1: for every batch of N >= 1 files, the completion step (updateData with
\* the merged list) runs exactly once, and only after all N jobs are
\* Succeeded or Failed, whatever the mix of successes and failures.
C1_CompletionFiresOnceAfterAllJobs ==
    /\ batch.completions <= 1
    /\ batch.completions = 1 => \A j \in DOMAIN batch.jobs :
                                    terminal(batch.jobs[j])
    /\ batchOver => batch.completions = 1

\* C2: at most one job is Processing at any time: at most one extraction
\* call is in flight, also when files are dropped while a batch runs.
C2_AtMostOneProcessing ==
    /\ Len(calls) <= 1
    /\ Cardinality(jobsWith("Processing")) <= 1
    /\ isLoading <=> Len(calls) = 1

\* a batch of two files is extracting its second file
C2_Witness ==
    /\ Len(calls) = 1
    /\ calls[1].i = 2
    /\ batch.jobs[1].status = "Succeeded"
    /\ batch.jobs[2].status = "Processing"

\* C3: a job whose extraction fails is Failed with the error message kept,
\* the batch is not aborted (every other job still runs to its end) and the
\* completion step still runs with the other jobs' records.
C3_FailedJobDoesNotAbortBatch ==
    \A j \in jobsWith("Failed") :
        /\ batch.jobs[j].errorMessage # ""
        /\ error = batch.jobs[j].errorMessage
        /\ batchOver => /\ jobsWith("Queued") = {}
                        /\ batch.completions = 1

----------------------------------------------------------------------------
(* Properties of the application state, stated on Spec *)

venueKey(v) == toLowerCase(v.venue_name)

vendorKey(v) == <<toLowerCase(v.vendor_name), toLowerCase(v.category)>>

keysUnique(st) ==
    /\ \A i, j \in 1..Len(st.venues) :
          i # j => venueKey(st.venues[i]) # venueKey(st.venues[j])
    /\ \A i, j \in 1..Len(st.vendors) :
          i # j => vendorKey(st.vendors[i]) # vendorKey(st.vendors[j])

\* C8: in every reachable state, after any sequence of upload merges, manual
\* adds, edits, deletes and remote overwrites, no two venues have the same
\* case-insensitive name and no two vendors the same case-insensitive
\* (name, category) pair.
C8_KeysAlwaysUnique == keysUnique(state)

\* the edits the venue list offers for a venue: the edit form submitted,
\* and the status selector
venueEditsOf(v) ==
    { Spread(formData(v, name, joinComma(v.vibe.arr)), [id |-> v.id]) :
        name \in FormNames }
    \cup { Spread(v, [status |-> st]) : st \in Statuses }

vendorEditsOf(v) == { Spread(v, [status |-> st]) : st \in Statuses }

\* list2 is list with the entity id stamped with the note at the current
\* time and every other entity as it was
stamped(list, list2, id, note) ==
    /\ Len(list2) = Len(list)
    /\ \A j \in 1..Len(list) :
          IF list[j].id = id
          THEN /\ Has(list2[j], "updateDescription")
               /\ list2[j].updateDescription = note
               /\ Has(list2[j], "lastUpdated")
               /\ list2[j].lastUpdated = now
          ELSE list2[j] = list[j]

manualEditStamps ==
    /\ \A i \in 1..Len(state.venues) :
          \A upd \in venueEditsOf(state.venues[i]) :
             handleVenueUpdate(upd) =>
                /\ stamped(state.venues, state'.venues, upd.id,
                           "Manually updated")
                /\ state'.vendors = state.vendors
    /\ \A i \in 1..Len(state.vendors) :
          \A upd \in vendorEditsOf(state.vendors[i]) :
             handleVendorUpdate(upd) =>
                /\ stamped(state.vendors, state'.vendors, upd.id,
                           "Manually updated")
                /\ state'.venues = state.venues

replacedBy(doc) ==
    LET migratedData == Spread(doc, [venues |-> Map(migrateVibe, doc.venues)])
    IN Spread(migratedData, [venues |-> migratedVenues(migratedData.venues)])

\* C12: a remote change replaces the whole local state by the remote
\* document (no merge with local entities), also while a local edit is
\* applied and its push is still in flight; the edit is then gone from the
\* state, no push is cancelled and no error or conflict status is raised.
C12_RemoteChangeReplacesState ==
    [][RemoteChange =>
          /\ state' = replacedBy(cloud)
          /\ localStorage' = state'
          /\ syncStatus' \in {"saved", "saving"}
          /\ SubSeq(saving', 1, Len(saving)) = saving]_vars

\* a venue was set to "Maybe" by hand and the push is in flight, and the
\* state is the remote document again, where the venue is not "Maybe"
C12_Witness ==
    /\ Len(saving) = 1
    /\ syncStatus = "saved"
    /\ state = replacedBy(cloud)
    /\ \E i \in 1..Len(saving[1].venues) :
          /\ saving[1].venues[i].status = "Maybe"
          /\ saving[1].venues[i].updateDescription = "Manually updated"
          /\ \E j \in 1..Len(state.venues) :
                /\ state.venues[j].id = saving[1].venues[i].id
                /\ state.venues[j].status # "Maybe"

\* C13: every step that changes the application state or the persisted
\* snapshot (upload merge, manual add, edit, delete, clear, magic search,
\* remote change, forced sync) leaves the snapshot equal to the state.
C13_SnapshotEqualsState ==
    [][(state' # state \/ localStorage' # localStorage)
          => localStorage' = state']_vars

\* the state was replaced by a remote document and holds a venue added by
\* hand after that; the snapshot holds both
C13_Witness ==
    /\ Len(state.venues) = 2
    /\ state.venues[1].id = "remote-1"
    /\ state.venues[2].updateDescription = "Manually added"
    /\ localStorage = state

----------------------------------------------------------------------------
\* Claims checked on StartupSpec.

\* the stored text is a snapshot of a state: an object with a venue and a
\* vendor collection
isStateSnapshot(J) ==
    /\ J.t = "object"
    /\ Has(J.fields, "venues") /\ J.fields.venues.t = "array"
    /\ Has(J.fields, "vendors") /\ J.fields.vendors.t = "array"

corrupt(saved) ==
    \/ saved.kind = "text" /\ saved.text # ""
    \/ saved.kind = "json" /\ ~isStateSnapshot(saved.value)

\* C14: once the App is mounted over a corrupt or unreadable snapshot, it
\* holds the empty initial state and it has not failed.
C14_CorruptSnapshotStartsEmpty ==
    (boot # "stored" /\ corrupt(input)) =>
        (boot = "mounted" /\ state = INITIAL_STATE)

----------------------------------------------------------------------------
\* Claims checked on QueueSpec.

\* C15: a remove(jobId) of a job that is Processing, Succeeded or Failed
\* changes nothing: the jobs, their statuses and the buffered results stay.
C15_RemoveOnlyWhileQueued ==
    [][\A id \in JobIds :
          (remove(id) /\ statusOfJob(id) # "Queued") =>
              /\ batch'.jobs = batch.jobs
              /\ batch'.results = batch.results
              /\ state' = state]_vars

\* a remove of the Processing job was rejected, next to a buffered result
C15_Witness ==
    /\ hist = <<[op |-> "remove", id |-> jobId(2), accepted |-> FALSE]>>
    /\ statusOfJob(jobId(2)) = "Processing"
    /\ statusOfJob(jobId(1)) = "Succeeded"
    /\ batch.results # <<>>

----------------------------------------------------------------------------
\* Claims checked on UploadSpec: the life of a job.

\* a new batch: its jobs are new jobs
newBatch == \E kind \in {"venue", "vendor"}, n \in 1..MaxFiles :
               StartUpload(kind, n)

\* the moves of the job state machine
moves(from, to) ==
    \/ from = to
    \/ from = "Queued" /\ to = "Processing"
    \/ from = "Processing" /\ to \in {"Succeeded", "Failed"}

\* C16: a job only ever goes from Queued to Processing and from Processing
\* to Succeeded or Failed; a Succeeded or Failed job keeps its status, so a
\* Failed job is never queued or processed again.
C16_JobsFollowTheStateMachine ==
    [][~newBatch =>
          /\ Len(batch'.jobs) = Len(batch.jobs)
          /\ \A j \in 1..Len(batch.jobs) :
                moves(batch.jobs[j].status, batch'.jobs[j].status)]_vars

\* both terminal statuses have been reached from Queued and Processing
C16_Witness ==
    /\ Len(batch.jobs) = 2
    /\ batch.jobs[1].status = "Succeeded"
    /\ batch.jobs[2].status = "Failed"
    /\ calls = <<>>

----------------------------------------------------------------------------
\* Claims checked on UploadSpec: the order of the work.

\* a job is taken up only after every job enqueued before it is over
jobsInOrder ==
    \A j, k \in 1..Len(batch.jobs) :
        (j < k /\ batch.jobs[k].status # "Queued") =>
            batch.jobs[j].status \in {"Succeeded", "Failed"}

\* the records merged one by one, first to last
RECURSIVE mergedInOrder(_, _, _)
mergedInOrder(kind, list, records) ==
    IF records = <<>> THEN list
    ELSE mergedInOrder(kind,
             IF kind = "venue"
             THEN uploadMergeVenue(list, Head(records), "uuid")
             ELSE uploadMergeVendor(list, Head(records), "uuid"),
             Tail(records))

\* the entities whatever their ids
noIds(list) == [i \in 1..Len(list) |-> Without(list[i], "id")]

collectionOf(kind, s) == IF kind = "venue" THEN s.venues ELSE s.vendors

\* C17: the jobs of a batch are processed in the order of the files, and
\* what the batch commits is the collection it started from with the
\* records of all its files, file after file and in the order each
\* extraction returned them, merged one by one.
C17_ProcessedAndMergedInOrder ==
    /\ []jobsInOrder
    /\ [][\A c \in 1..Len(calls) :
             \A extractedList \in ListsUpTo(UploadRecords(calls[c].kind),
                                            MaxExtracted) :
                (ExtractResolved(c, extractedList)
                    /\ calls[c].i = calls[c].length) =>
                   noIds(collectionOf(calls[c].kind, state')) =
                      noIds(mergedInOrder(calls[c].kind,
                               collectionOf(calls[c].kind, calls[c].state),
                               hist \o extractedList))]_vars

\* a committed batch of two files whose records name the same venue: the
\* order of the records decides what is stored
C17_Witness ==
    /\ Len(batch.jobs) = 2
    /\ batch.completions = 1
    /\ Len(hist) = 3
    /\ hist[1].venue_name = "Oak Barn" /\ hist[1].booking_price = 1000
    /\ hist[2].venue_name = "OAK BARN" /\ hist[2].booking_price = 0
    /\ hist[3].venue_name = "Elm Hall"
    /\ Len(state.venues) = 2
    /\ state.venues[1].venue_name = "OAK BARN"
    /\ state.venues[1].booking_price = 1000

\* C18: the step that fails the last job of a batch in which every job has
\* failed runs the completion step, with no records, and leaves the stored
\* collections as they were.
C18_AllFailedBatchStillCompletes ==
    [][\A c \in 1..Len(calls) : \A err \in Rejections :
          (ExtractRejected(c, err)
              /\ \A j \in 1..Len(batch'.jobs) :
                    batch'.jobs[j].status = "Failed") =>
             /\ batch'.completions = 1
             /\ hist' = <<>>
             /\ state' = state
             /\ localStorage' = localStorage]_vars

----------------------------------------------------------------------------
\* Claims checked on MergeSpec: free text and the audit trail.

\* the free-text fields of an entity of the uploaded kind
freeTextFields ==
    IF input.kind = "venue"
    THEN {"notes", "admin_fees", "site_fee_notes", "location"}
    ELSE {"notes"}

\* C19: in a merge onto a matching entity, a free-text field whose
\* extracted value is empty keeps the text the entity had.
C19_BlankNeverErasesText ==
    (merged /\ matching # {}) =>
        \A f \in freeTextFields :
            (Has(input.rec, f) /\ input.rec[f] = "") =>
                sameField(collOnce[target], collBefore[target], f)

\* the interesting fields in the order the merge looks at them, and the
\* words of their change lines
lineWords ==
    IF input.kind = "venue"
    THEN << <<"total_cost_pp", "Total PP Cost updated from $", " to $">>,
            <<"cocktail_cost_pp", "Cocktail Cost updated from $", " to $">>,
            <<"site_fee", "Site Fee updated from $", " to $">>,
            <<"capacity", "Capacity changed from ", " to ">> >>
    ELSE << <<"price", "Price updated from $", " to $">> >>

\* the extracted value is present, not zero, and not the existing value
presentAndDiffers(f) ==
    /\ TruthyNum(input.rec, f)
    /\ input.rec[f] # NumOr0(collBefore[target], f)

RECURSIVE linesOf(_)
linesOf(words) ==
    IF words = <<>> THEN <<>>
    ELSE (IF presentAndDiffers(Head(words)[1])
          THEN <<Head(words)[2]
                   \o ToString(NumOr0(collBefore[target], Head(words)[1]))
                   \o Head(words)[3]
                   \o ToString(input.rec[Head(words)[1]])>>
          ELSE <<>>) \o linesOf(Tail(words))

\* the change lines of the interesting fields
fieldLines == linesOf(lineWords)

notesLine ==
    IF notesLengthDiffers THEN <<"Rate card notes updated">> ELSE <<>>

\* the time of the first merge
mergeTime == now - Len(hist)

\* the audit fields after a merge that recorded these lines
auditFollows(lines) ==
    IF lines # <<>>
    THEN /\ Has(collOnce[target], "lastUpdated")
         /\ collOnce[target].lastUpdated = mergeTime
         /\ Has(collOnce[target], "updateDescription")
         /\ collOnce[target].updateDescription = join(lines)
    ELSE auditUnchanged

\* C20 (as stated): a change line is recorded for an interesting field
\* exactly when the extracted value is present, nonzero and differs; the
\* timestamp becomes the merge time and the note the joined lines iff there
\* is at least one such line, and otherwise both audit fields stay.
C20_AuditFollowsFieldLines ==
    (merged /\ matching # {}) => auditFollows(fieldLines)

\* C20 (amended): the lines are those of the interesting fields and, for a
\* venue whose notes and the record's notes are both non-empty and differ in
\* length, the line "Rate card notes updated"; the timestamp becomes the
\* merge time and the note the joined lines iff there is at least one line,
\* and otherwise both audit fields stay.
C20_AuditFollowsFieldAndNotesLines ==
    (merged /\ matching # {}) => auditFollows(fieldLines \o notesLine)

\* a merge that recorded two field lines and the notes line onto an entity
\* that had an audit trail
C20_Witness ==
    /\ Len(hist) = 1
    /\ matching # {}
    /\ Len(fieldLines) = 2
    /\ notesLine # <<>>
    /\ Has(collBefore[target], "updateDescription")
    /\ collOnce[target].updateDescription = join(fieldLines \o notesLine)
    /\ collOnce[target].lastUpdated = mergeTime

----------------------------------------------------------------------------
\* Claims checked on MergeSpec: the appended entity.

\* the entity the first merge appended
appended == collOnce[Len(collBefore) + 1]

\* an appended entity with this audit note
appendedWith(note) ==
    /\ Len(collOnce) = Len(collBefore) + 1
    /\ Has(appended, "status") /\ appended.status = "Haven't looked"
    /\ Has(appended, "lastUpdated") /\ appended.lastUpdated = mergeTime
    /\ Has(appended, "updateDescription")
    /\ appended.updateDescription = note

\* C21 (as stated): an entity appended by an upload merge has the status
\* "Haven't looked", the merge time as its timestamp and the audit note
\* "added via upload"; one record into an empty collection gives one entity.
C21_AppendedIsAddedViaUpload ==
    (merged /\ matching = {}) => appendedWith("added via upload")

\* C21 (amended): ... and the audit note "Newly added via upload".
C21_AppendedIsNewlyAddedViaUpload ==
    (merged /\ matching = {}) => appendedWith("Newly added via upload")

\* one venue record merged into an empty collection
C21_Witness ==
    /\ Len(hist) = 1
    /\ input.kind = "venue"
    /\ collBefore = <<>>
    /\ Len(collOnce) = 1
    /\ collOnce[1].venue_name = input.rec.venue_name
    /\ collOnce[1].updateDescription = "Newly added via upload"

----------------------------------------------------------------------------
\* Claims checked on MergeSpec: which entity a record is merged onto.

\* the name the record carries, as the merged entity shows it
nameOf(e) == IF input.kind = "venue" THEN e.venue_name ELSE e.vendor_name

\* C22: of the stored entities whose key equals the record's key (name, and
\* for vendors name and category, ignoring case) the first in collection
\* order is updated and every other entity is left as it was; a record whose
\* key no entity has is appended.
C22_FirstMatchIsUpdated ==
    merged =>
        IF matching # {}
        THEN /\ Len(collOnce) = Len(collBefore)
             /\ nameOf(collOnce[target]) = nameOf(input.rec)
             /\ \A i \in 1..Len(collBefore) :
                   i # target => collOnce[i] = collBefore[i]
        ELSE /\ Len(collOnce) = Len(collBefore) + 1
             /\ SubSeq(collOnce, 1, Len(collBefore)) = collBefore

\* two stored entities have the record's key; the first took the record's
\* name and the second did not
C22_Witness ==
    /\ Len(hist) = 1
    /\ Cardinality(matching) = 2
    /\ nameOf(collBefore[target]) # nameOf(input.rec)
    /\ nameOf(collOnce[target]) = nameOf(input.rec)
    /\ \E i \in matching : i # target /\ collOnce[i] = collBefore[i]

----------------------------------------------------------------------------
\* Claims checked on Spec: remote failures and local operation.

\* a step that changes the application state or its snapshot
mutation == state' # state \/ localStorage' # localStorage

\* C23: while the remote store is not connected a mutation updates the state
\* and the snapshot and starts no push; a failed push sets the sync status
\* to 'error' and leaves the state and the snapshot as they are.
C23_RemoteFailuresStayRemote ==
    [][/\ (~isCloudConnected /\ mutation) =>
             (localStorage' = state' /\ saving' = saving)
       /\ \A i \in 1..Len(saving) :
             SaveRejected(i) =>
                /\ syncStatus' = "error"
                /\ state' = state
                /\ localStorage' = localStorage]_vars

----------------------------------------------------------------------------
\* Claims checked on BatchSpec.

\* the batch has been merged
batchMerged == hist # <<>>

\* the collection of the uploaded kind before and after the batch
before == collOf(hist[1])
after == collOf(state)

\* the natural key of an entity or record: the name, and for vendors the
\* category, ignoring case
keyOf(e) ==
    IF input.kind = "venue" THEN <<toLowerCase(e.venue_name)>>
    ELSE <<toLowerCase(e.vendor_name), toLowerCase(e.category)>>

storedKeys == { keyOf(before[i]) : i \in 1..Len(before) }

\* C24: a batch of two records with the same key, which no stored entity
\* has, appends exactly one entity.
C24_SameKeyTwiceAppendsOnce ==
    (/\ batchMerged
     /\ Len(input.data) = 2
     /\ keyOf(input.data[1]) = keyOf(input.data[2])
     /\ keyOf(input.data[1]) \notin storedKeys)
        => /\ Len(after) = Len(before) + 1
           /\ keyOf(after[Len(after)]) = keyOf(input.data[1])

\* "Pine Lodge" and "PINE LODGE" in one batch, onto a stored collection
C24_Witness ==
    /\ batchMerged
    /\ input.kind = "venue"
    /\ Len(input.data) = 2
    /\ input.data[1].venue_name = "Pine Lodge"
    /\ input.data[2].venue_name = "PINE LODGE"
    /\ Len(before) = 1
    /\ Len(after) = 2
    /\ after[2].venue_name = "PINE LODGE"

----------------------------------------------------------------------------
\* Claims checked on UploadSpec: changes made while a batch is awaited.

otherKind(kind) == IF kind = "venue" THEN "vendor" ELSE "venue"

\* C25: the state a batch commits is the state current at the commit with
\* the records of the batch merged into the uploaded collection: a change
\* made while the batch was awaiting its extractions is kept.
C25_CommitKeepsConcurrentChanges ==
    [][\A c \in 1..Len(calls) :
          \A extractedList \in ListsUpTo(UploadRecords(calls[c].kind),
                                         MaxExtracted) :
             (ExtractResolved(c, extractedList)
                 /\ calls[c].i = calls[c].length) =>
                /\ noIds(collectionOf(calls[c].kind, state')) =
                      noIds(mergedInOrder(calls[c].kind,
                               collectionOf(calls[c].kind, state),
                               hist \o extractedList))
                /\ collectionOf(otherKind(calls[c].kind), state') =
                      collectionOf(otherKind(calls[c].kind), state)]_vars

----------------------------------------------------------------------------
\* Claims checked on Spec: pushes in flight.

\* C26: pushes take effect in the order the mutations were made: a push
\* writes the remote document only when no push started before it, with
\* other data, is still in flight; so after both pushes of two successive
\* updates the document holds the later state.
C26_PushesTakeEffectInOrder ==
    [][\A i \in 1..Len(saving) :
          SaveResolved(i) =>
             \A j \in 1..(i - 1) : saving[j] = saving[i]]_vars

\* C27: whenever a push started by updateData has neither resolved nor
\* rejected, the sync status is 'saving'.
C27_InFlightMeansSaving ==
    saving # <<>> => syncStatus = "saving"

\* the stored entities a record of the batch matches: the first one of the
\* collection with the record's key
matchedByBatch ==
    { i \in 1..Len(before) :
        /\ \E k \in 1..Len(input.data) : keyOf(input.data[k]) = keyOf(before[i])
        /\ \A j \in 1..(i - 1) : keyOf(before[j]) # keyOf(before[i]) }

\* the collection of the kind that is not uploaded
otherOf(st) == IF input.kind = "venue" THEN st.vendors ELSE st.venues

\* C28: a batch merge leaves the collection of the other kind unchanged,
\* leaves every entity no record matches unchanged and in its place, and
\* keeps the id and the position of every matched entity.
C28_MergeChangesOnlyMatches ==
    batchMerged =>
        /\ otherOf(state) = otherOf(hist[1])
        /\ Len(after) >= Len(before)
        /\ \A i \in 1..Len(before) :
              /\ after[i].id = before[i].id
              /\ i \notin matchedByBatch => after[i] = before[i]

\* a batch that updates the second of two stored entities and appends
\* another one
C28_Witness ==
    /\ batchMerged
    /\ Len(before) = 2
    /\ matchedByBatch = {2}
    /\ after[2] # before[2]
    /\ Len(after) = 3

----------------------------------------------------------------------------
(* Claims about the backfill effect, checked under BackfillSpec *)

backfilled(venue) == TruthyStr(venue, "city") /\ TruthyStr(venue, "state")

\* the part of a location the state is parsed from holds nothing
nothingToParse(location) ==
    LET parts == split(location)
    IN Len(parts) < 2
       \/ trim(removeParens(removeZips(parts[Len(parts)]))) = ""

\* C29: the backfill makes at most one state update; after its first run
\* every venue with a non-empty location has a non-empty city and state
\* ("Unknown" when nothing can be parsed), and a later run changes nothing.
C29_BackfillTerminates ==
    /\ Len(hist) <= 2
    /\ Len(hist) = 2 => state = hist[2]
    /\ Len(hist) >= 1 =>
          \A i \in 1..Len(state.venues) :
             LET venue == state.venues[i]
                 old == hist[1].venues[i]
             IN TruthyStr(venue, "location") =>
                   /\ backfilled(venue)
                   /\ (~backfilled(old) /\ nothingToParse(old.location))
                         => venue.state = "Unknown"
    /\ (Len(hist) >= 1 /\ ~effectPending) => ~hasUpdates(state.venues)

\* a venue whose location is blank was updated to "Unknown", and the run
\* after that update has been made
C29_Witness ==
    /\ Len(hist) = 2
    /\ hist[1] # hist[2]
    /\ \E i \in 1..Len(state.venues) :
          /\ hist[1].venues[i].location = " "
          /\ ~backfilled(hist[1].venues[i])
          /\ state.venues[i].city = "Unknown"

----------------------------------------------------------------------------
(* Claims about the vibe of a venue, checked under VibeSpec *)

\* a list whose elements are trimmed strings
listOfTags(venue) ==
    /\ Has(venue, "vibe")
    /\ isArray(venue.vibe)
    /\ \A k \in 1..Len(venue.vibe.arr) :
          trim(venue.vibe.arr[k]) = venue.vibe.arr[k]

\* C30: in every reachable state of the application the vibe of every venue
\* is a list of trimmed tags, whichever path put the venue into the state.
C30_VibeIsListOfTags ==
    \A i \in 1..Len(state.venues) : listOfTags(state.venues[i])

\* a venue loaded from a snapshot that held a string, beside a venue
\* uploaded with a string
C30_Witness ==
    /\ Len(state.venues) = 2
    /\ state.venues[1].venue_name = "Elm Hall"
    /\ state.venues[1].vibe = [arr |-> <<"modern", "loft">>]
    /\ state.venues[2].vibe = [arr |-> <<"Rustic", "Barn">>]
    /\ state.venues[2].updateDescription = "Newly added via upload"

====
